---- MODULE Spec2Model ----
(***************************************************************************)
(* A model of the CTAP2 core of libwebauthn:                               *)
(*   - Ctap2GetInfoResponse::uv_operation and the PIN/UV orchestrator      *)
(*     that drives it (specification SpecUv),                              *)
(*   - the CTAP2 protocol layer, one method per command (Spec),            *)
(*   - the transport channel's cbor_send / cbor_recv pairing (SpecChan),   *)
(*   - the CBOR codec of the credential types (SpecCodec),                 *)
(*   - the authenticator configuration example (SpecMgmt),                 *)
(*   - caBLE known devices: their ids and records (SpecCable), the         *)
(*     channel opened to one and its connection task (SpecKnownDevice),    *)
(*   - the known-device store under concurrent calls (SpecStore),          *)
(*   - the UX-update bus and the update handler (SpecUx).                  *)
(* Each specification moves its own variables and leaves the others at     *)
(* their initial values.                                                   *)
(***************************************************************************)
EXTENDS Integers, Sequences, FiniteSets, TLC

VARIABLES
    info,           \* the authenticator's GetInfo result (its option map)
    uv_call,        \* the last direct calls of uv_operation and is_uv_protected
    uv_request,     \* the user-verifiable request being authenticated
    uv_pc,          \* the orchestrator's state (section 4.4.6)
    uv_blocked,     \* built-in UV has been blocked during this request
    uv_selections,  \* the results of uv_operation in this request, in order
    uv_failures,    \* failed built-in UV attempts in this request
    pin_retries,    \* the authenticator's remaining PIN retries
    ux_events,      \* UvUpdate events published in this request, in order
    p_pc,           \* protocol layer: "idle", or "returned" after a method call
    p_call,         \* the method called, its request and the caller's timeout
    p_send,         \* what the channel's cbor_send gave the method
    p_recv,         \* what the channel's cbor_recv gave the method
    p_ret,          \* the method's channel operations, its result, whether it decoded
    p_wire,         \* the channel operations the calls so far have issued, in order
    p_fido_2_1,     \* the answer of supports_fido_2_1 on the response returned
    c_open,         \* transport channel: channel() has returned it
    cbor_tx,        \* requests queued for the channel's I/O task
    cbor_rx,        \* responses queued for cbor_recv
    c_outstanding,  \* a request was sent that no cbor_recv has answered yet
    c_sent,         \* requests accepted by cbor_send
    c_answered,     \* responses delivered by cbor_recv
    c_last,         \* the last cbor_send / cbor_recv: the state it met, its result
    ser_value,      \* codec: the value handed to cbor::to_vec, if any
    ser_bytes,      \* the CBOR bytes written by to_vec, or received
    de_result,      \* what from_slice made of ser_bytes, and is_known() of it
    m_info,         \* configuration example: the GetInfo result it read
    m_pc,           \* "info", "menu", "loop" or "done"
    m_options,      \* the operations get_supported_options returned
    m_idx,          \* the user's choice, an index into m_options
    m_issued,       \* the operations issued by the loop, in order
    m_results,      \* what each issued operation returned, in order
    m_outcome,      \* the value the loop broke with
    d_linking,      \* caBLE: the linking records received, in order
    d_domains,      \* the tunnel domain given with each linking record
    d_ids,          \* the device id derived from each linking record
    d_infos,        \* what CableKnownDeviceInfo::new made of each
    k_pc,           \* connection(): "idle", the stage awaited, or "returned"
    k_device,       \* the known device connected to (an index into d_infos)
    k_started,      \* the stages started in this attempt, in order
    k_outcomes,     \* what each finished stage returned, in order
    k_result,       \* what connection() returned
    k_nonces,       \* the client nonces drawn in this attempt, in order
    k_inputs,       \* the input each started stage was given, in order
    k_outputs,      \* the output of each stage that returned Ok, in order
    k_channel,      \* what channel() returned
    k_state,        \* the value of the channel's connection-state watch
    k_reported,     \* what the task handed to ux_sender.send_error
    k_tunnel,       \* tunnel::connection: "not started", "running" or "ended"
    known_devices,  \* the store's HashMap: device id -> device info
    s_lock,         \* the task holding the store's mutex
    s_writing,      \* the task that is rewriting the HashMap
    s_pc,           \* per task: "idle", "lock", "locked" or "writing"
    s_call,         \* per task: the store call it is in
    s_calls,        \* store calls started
    s_log,          \* the store calls in the order they took effect
    s_snapshot,     \* what the last list_all returned, and when it read
    b_open,         \* the channel, and with it the bus's senders, is alive
    b_queue,        \* the updates the broadcast queue retains, oldest first
    b_tail,         \* the number of updates ever stored in the queue
    b_emitted,      \* the number of updates the publisher has sent
    b_sub,          \* per subscriber: its receiver and where handle_updates is
    b_handled       \* per subscriber: the update it handled last, and how

uvVars == <<info, uv_call, uv_request, uv_pc, uv_blocked, uv_selections, uv_failures,
            pin_retries, ux_events>>

protoVars == <<p_pc, p_call, p_send, p_recv, p_ret, p_wire, p_fido_2_1>>

chanVars == <<c_open, cbor_tx, cbor_rx, c_outstanding, c_sent, c_answered, c_last>>

codecVars == <<ser_value, ser_bytes, de_result>>

mgmtVars == <<m_info, m_pc, m_options, m_idx, m_issued, m_results, m_outcome>>

cableVars == <<d_linking, d_domains, d_ids, d_infos, k_pc, k_device, k_started, k_outcomes,
               k_result, k_nonces, k_inputs, k_outputs, k_channel, k_state, k_reported,
               k_tunnel>>

storeVars == <<known_devices, s_lock, s_writing, s_pc, s_call, s_calls, s_log, s_snapshot>>

uxVars == <<b_open, b_queue, b_tail, b_emitted, b_sub, b_handled>>

vars == <<uvVars, protoVars, chanVars, codecVars, mgmtVars, cableVars, storeVars,
          uxVars>>

\* What the actions of one part leave alone: the variables of the other parts.
uvOthers == <<protoVars, chanVars, codecVars, mgmtVars, cableVars, storeVars, uxVars>>
protoOthers == <<uvVars, chanVars, codecVars, mgmtVars, cableVars, storeVars, uxVars>>
chanOthers == <<uvVars, protoVars, codecVars, mgmtVars, cableVars, storeVars, uxVars>>
codecOthers == <<uvVars, protoVars, chanVars, mgmtVars, cableVars, storeVars, uxVars>>
mgmtOthers == <<uvVars, protoVars, chanVars, codecVars, cableVars, storeVars, uxVars>>
cableOthers == <<uvVars, protoVars, chanVars, codecVars, mgmtVars, storeVars, uxVars>>
storeOthers == <<uvVars, protoVars, chanVars, codecVars, mgmtVars, cableVars, uxVars>>
uxOthers == <<uvVars, protoVars, chanVars, codecVars, mgmtVars, cableVars, storeVars>>

----------------------------------------------------------------------------
(* GetInfo options: Option<HashMap<String, bool>>.                         *)

OptionNames == {"uv", "pinUvAuthToken", "clientPin"}

\* HashMap::get gives None, Some(&false) or Some(&true).
OptionValues == {"absent", "false", "true"}

NoOptionMap == [n \in OptionNames |-> "absent"]

\* options: None is has_options = FALSE (and then the map is unused).
Ctap2GetInfoResponse ==
    {[has_options |-> TRUE, options |-> o] : o \in [OptionNames -> OptionValues]}
        \cup {[has_options |-> FALSE, options |-> NoOptionMap]}

option_enabled(i, name) ==
    IF ~i.has_options THEN FALSE ELSE i.options[name] = "true"

\* Option<Ctap2UserVerificationOperation>, and the failed assert!.
Some(op) == <<"Some", op>>
NoneOpt == <<"None">>
Panic == <<"panic">>

Ctap2UserVerificationOperation ==
    {"GetPinUvAuthTokenUsingUvWithPermissions",
     "GetPinUvAuthTokenUsingPinWithPermissions",
     "GetPinToken",
     "None"}

\* A slip: the uv_blocked argument is ignored.
uv_operation_ignores_blocked(i, blocked) ==
    IF option_enabled(i, "uv")
    THEN IF option_enabled(i, "pinUvAuthToken")
         THEN Some("GetPinUvAuthTokenUsingUvWithPermissions")
         ELSE Some("None")
    ELSE IF option_enabled(i, "pinUvAuthToken")
         THEN IF ~option_enabled(i, "clientPin")
              THEN Panic
              ELSE Some("GetPinUvAuthTokenUsingPinWithPermissions")
         ELSE IF option_enabled(i, "clientPin")
              THEN Some("GetPinToken")
              ELSE NoneOpt

\* A slip: the assert! on clientPin is missing.
uv_operation_no_assert(i, blocked) ==
    IF option_enabled(i, "uv") /\ ~blocked
    THEN IF option_enabled(i, "pinUvAuthToken")
         THEN Some("GetPinUvAuthTokenUsingUvWithPermissions")
         ELSE Some("None")
    ELSE IF option_enabled(i, "pinUvAuthToken")
         THEN Some("GetPinUvAuthTokenUsingPinWithPermissions")
         ELSE IF option_enabled(i, "clientPin")
              THEN Some("GetPinToken")
              ELSE NoneOpt

\* A slip: the failed assertion is reported as "no method".
uv_operation_reports_none(i, blocked) ==
    IF option_enabled(i, "uv") /\ ~blocked
    THEN IF option_enabled(i, "pinUvAuthToken")
         THEN Some("GetPinUvAuthTokenUsingUvWithPermissions")
         ELSE Some("None")
    ELSE IF option_enabled(i, "pinUvAuthToken")
         THEN IF ~option_enabled(i, "clientPin")
              THEN NoneOpt
              ELSE Some("GetPinUvAuthTokenUsingPinWithPermissions")
         ELSE IF option_enabled(i, "clientPin")
              THEN Some("GetPinToken")
              ELSE NoneOpt

\* A slip: the clientPin test comes before the pinUvAuthToken test.
uv_operation_pin_first(i, blocked) ==
    IF option_enabled(i, "uv") /\ ~blocked
    THEN IF option_enabled(i, "pinUvAuthToken")
         THEN Some("GetPinUvAuthTokenUsingUvWithPermissions")
         ELSE Some("None")
    ELSE IF option_enabled(i, "clientPin")
         THEN Some("GetPinToken")
         ELSE IF option_enabled(i, "pinUvAuthToken")
              THEN Panic
              ELSE NoneOpt

uv_operation(i, blocked) ==
    IF option_enabled(i, "uv") /\ ~blocked
    THEN IF option_enabled(i, "pinUvAuthToken")
         THEN Some("GetPinUvAuthTokenUsingUvWithPermissions")
         ELSE Some("None")
    ELSE IF option_enabled(i, "pinUvAuthToken")
         THEN IF ~option_enabled(i, "clientPin")
              THEN Panic
              ELSE Some("GetPinUvAuthTokenUsingPinWithPermissions")
         ELSE IF option_enabled(i, "clientPin")
              THEN Some("GetPinToken")
              ELSE NoneOpt

\* A variant: the check as the doc comment words it, pinUvAuthToken required.
is_uv_protected_as_documented(i) ==
    /\ option_enabled(i, "pinUvAuthToken")
    /\ option_enabled(i, "clientPin") \/ option_enabled(i, "uv")

\* Ctap2GetInfoResponse::is_uv_protected.
is_uv_protected(i) ==
    \/ option_enabled(i, "uv")
    \/ option_enabled(i, "clientPin")
    \/ (option_enabled(i, "pinUvAuthToken") /\ option_enabled(i, "uv"))

----------------------------------------------------------------------------
(* The PIN/UV orchestrator (sections 4.4.5 and 4.4.6), around uv_operation. *)

\* Built-in UV may fail this many times before the orchestrator falls back.
MaxUvFailures == 2

\* The PIN retry counter the authenticator starts a request with.
MaxPinRetries == 2

\* A request implementing Ctap2UserVerifiableRequest: its uv option, its
\* client data hash, and the pinUvAuthParam (<<>> when absent) and
\* pinUvAuthProtocol ({} when absent) fields; with them the token and the
\* PIN/UV auth protocol the orchestrator holds for it.
UvOptionValues == {"absent", "false", "true"}

ClientDataHashes == {"H1", "H2"}

UvAuthTokens == {"T1", "T2"}

\* PinUvAuthProtocol one and two, by their numbers.
PinUvAuthProtocols == {1, 2}

NewUserVerifiableRequest(uv, hash) ==
    [uv |-> uv, client_data_hash |-> hash,
     pin_uv_auth_param |-> <<>>, pin_uv_auth_protocol |-> {},
     uv_auth_token |-> {}, uv_proto |-> {}, token_attached |-> FALSE]

UserVerifiableRequests ==
    {NewUserVerifiableRequest(uv, hash) : uv \in UvOptionValues, hash \in ClientDataHashes}

\* protocol.authenticate(key, message): the 32 bytes of HMAC-SHA-256, each
\* byte standing for itself as (key, message, position).
authenticate(proto, key, message) == [i \in 1..32 |-> <<key, message, i>>]

LEFT(s, n) == SubSeq(s, 1, n)

\* A slip: the uv option is left as the caller set it.
calculate_and_set_uv_auth_keeps_uv(request, uv_proto_, token) ==
    [request EXCEPT
        !.pin_uv_auth_param =
            LEFT(authenticate(uv_proto_, token, request.client_data_hash), 16),
        !.pin_uv_auth_protocol = {uv_proto_}]

calculate_and_set_uv_auth(request, uv_proto_, token) ==
    [request EXCEPT
        !.pin_uv_auth_param =
            LEFT(authenticate(uv_proto_, token, request.client_data_hash), 16),
        !.pin_uv_auth_protocol = {uv_proto_},
        !.uv = "false"]

NoCall ==
    [called |-> FALSE, blocked |-> FALSE, result |-> NoneOpt,
     asked |-> FALSE, uv_protected |-> FALSE]

\* attempts_left: Option<u32> as a set, {} for None and {n} for Some(n).
PinRequired(reason, attempts) ==
    [kind |-> "PinRequired", reason |-> reason, attempts_left |-> attempts]

UvRetry(attempts) ==
    [kind |-> "UvRetry", reason |-> "-", attempts_left |-> attempts]

\* The state the orchestrator enters for a selected operation.
StateFor(sel) ==
    IF sel = Panic THEN "Aborted"
    ELSE IF sel = Some("GetPinUvAuthTokenUsingUvWithPermissions") THEN "AcquireUv"
    ELSE IF sel \in {Some("GetPinUvAuthTokenUsingPinWithPermissions"),
                     Some("GetPinToken")} THEN "AcquirePin"
    ELSE "NoAuthNeeded"

UvInit ==
    /\ info \in Ctap2GetInfoResponse
    /\ uv_request \in UserVerifiableRequests
    /\ uv_call = NoCall
    /\ uv_pc = "Start"
    /\ uv_blocked = FALSE
    /\ uv_selections = <<>>
    /\ uv_failures = 0
    /\ pin_retries = MaxPinRetries
    /\ ux_events = <<>>

\* No request is running, on an authenticator that reports no options.
UvIdle ==
    /\ info = [has_options |-> FALSE, options |-> NoOptionMap]
    /\ uv_request = NewUserVerifiableRequest("absent", "H1")
    /\ uv_call = NoCall
    /\ uv_pc = "Start"
    /\ uv_blocked = FALSE
    /\ uv_selections = <<>>
    /\ uv_failures = 0
    /\ pin_retries = MaxPinRetries
    /\ ux_events = <<>>

\* info.uv_operation(uv_blocked), called directly with either flag value.
UvOperationCall(blocked) ==
    /\ uv_call' = [uv_call EXCEPT !.called = TRUE, !.blocked = blocked,
                                  !.result = uv_operation(info, blocked)]
    /\ UNCHANGED <<uv_request, info, uv_pc, uv_blocked, uv_selections, uv_failures,
                   pin_retries, ux_events>>
    /\ UNCHANGED uvOthers

\* info.is_uv_protected(), called directly.
IsUvProtectedCall ==
    /\ uv_call' = [uv_call EXCEPT !.asked = TRUE,
                                  !.uv_protected = is_uv_protected(info)]
    /\ UNCHANGED <<uv_request, info, uv_pc, uv_blocked, uv_selections, uv_failures,
                   pin_retries, ux_events>>
    /\ UNCHANGED uvOthers

\* Start -> QueryInfo -> ChooseMethod.
QueryInfo ==
    /\ uv_pc = "Start"
    /\ uv_pc' = "ChooseMethod"
    /\ UNCHANGED <<uv_request, info, uv_call, uv_blocked, uv_selections, uv_failures,
                   pin_retries, ux_events>>
    /\ UNCHANGED uvOthers

\* ChooseMethod -> {NoAuthNeeded | AcquirePin | AcquireUv}; a PIN flow
\* prompts with a PinRequired event.
ChooseMethod ==
    /\ uv_pc = "ChooseMethod"
    /\ LET sel == uv_operation(info, uv_blocked) IN
        /\ uv_selections' = Append(uv_selections, sel)
        /\ uv_pc' = StateFor(sel)
        /\ ux_events' =
              IF StateFor(sel) = "AcquirePin"
              THEN Append(ux_events, PinRequired("RelyingPartyRequest", {}))
              ELSE ux_events
    /\ UNCHANGED <<uv_request, info, uv_call, uv_blocked, uv_failures, pin_retries>>
    /\ UNCHANGED uvOthers

\* The restart at method selection with uv_blocked = true.
Fallback ==
    LET sel == uv_operation(info, TRUE) IN
        /\ uv_blocked' = TRUE
        /\ uv_selections' = Append(uv_selections, sel)
        /\ uv_pc' = StateFor(sel)
        /\ ux_events' =
              IF StateFor(sel) = "AcquirePin"
              THEN Append(ux_events, PinRequired("FallbackFromUV", {}))
              ELSE ux_events

\* AcquireUv -> SendSubcmd -> Token.
UvToken ==
    /\ uv_pc = "AcquireUv"
    /\ uv_pc' = "Token"
    /\ \E token \in UvAuthTokens, proto \in PinUvAuthProtocols :
           uv_request' = [uv_request EXCEPT !.uv_auth_token = {token},
                                            !.uv_proto = {proto}]
    /\ UNCHANGED <<info, uv_call, uv_blocked, uv_selections, uv_failures,
                   pin_retries, ux_events>>
    /\ UNCHANGED uvOthers

\* AcquireUv -> SendSubcmd -> UvRetry: the attempt failed; retry, or fall
\* back once the failures reach MaxUvFailures.
UvInvalid ==
    /\ uv_pc = "AcquireUv"
    /\ uv_failures < MaxUvFailures
    /\ uv_failures' = uv_failures + 1
    /\ IF uv_failures + 1 < MaxUvFailures
       THEN /\ ux_events' = Append(ux_events,
                                   UvRetry({MaxUvFailures - uv_failures - 1}))
            /\ UNCHANGED <<uv_pc, uv_blocked, uv_selections>>
       ELSE Fallback
    /\ UNCHANGED <<uv_request, info, uv_call, pin_retries>>
    /\ UNCHANGED uvOthers

\* AcquireUv -> SendSubcmd -> UvBlocked (0x3B): fall back to the PIN.
UvBlocked ==
    /\ uv_pc = "AcquireUv"
    /\ Fallback
    /\ UNCHANGED <<uv_request, info, uv_call, uv_failures, pin_retries>>
    /\ UNCHANGED uvOthers

\* AcquirePin -> (prompt) -> Encrypt -> SendSubcmd -> Token.
PinToken ==
    /\ uv_pc = "AcquirePin"
    /\ uv_pc' = "Token"
    /\ \E token \in UvAuthTokens, proto \in PinUvAuthProtocols :
           uv_request' = [uv_request EXCEPT !.uv_auth_token = {token},
                                            !.uv_proto = {proto}]
    /\ UNCHANGED <<info, uv_call, uv_blocked, uv_selections, uv_failures,
                   pin_retries, ux_events>>
    /\ UNCHANGED uvOthers

\* AcquirePin -> SendSubcmd -> PinInvalid (0x31) -> AcquirePin, with the
\* response's pinRetries in the next prompt.
PinInvalid ==
    /\ uv_pc = "AcquirePin"
    /\ pin_retries > 1
    /\ pin_retries' = pin_retries - 1
    /\ ux_events' = Append(ux_events,
                           PinRequired(IF uv_blocked THEN "FallbackFromUV"
                                       ELSE "RelyingPartyRequest",
                                       {pin_retries - 1}))
    /\ UNCHANGED <<uv_request, info, uv_call, uv_pc, uv_blocked, uv_selections, uv_failures>>
    /\ UNCHANGED uvOthers

\* AcquirePin -> SendSubcmd -> PinBlocked (0x32) -> Fail.
PinBlocked ==
    /\ uv_pc = "AcquirePin"
    /\ uv_pc' = "Fail"
    /\ pin_retries' = 0
    /\ UNCHANGED <<uv_request, info, uv_call, uv_blocked, uv_selections, uv_failures,
                   ux_events>>
    /\ UNCHANGED uvOthers

\* Token -> AuthenticateRequest -> Done; NoAuthNeeded -> Done.
AuthenticateRequest ==
    /\ uv_pc \in {"Token", "NoAuthNeeded"}
    /\ uv_pc' = "Done"
    /\ uv_request' =
          IF uv_pc = "Token"
          THEN LET proto == CHOOSE p \in uv_request.uv_proto : TRUE
                   token == CHOOSE t \in uv_request.uv_auth_token : TRUE
               IN [calculate_and_set_uv_auth(uv_request, proto, token)
                       EXCEPT !.token_attached = TRUE]
          ELSE uv_request
    /\ UNCHANGED <<info, uv_call, uv_blocked, uv_selections, uv_failures,
                   pin_retries, ux_events>>
    /\ UNCHANGED uvOthers

\* No state persists across requests.
NewRequest ==
    /\ uv_pc \in {"Done", "Fail"}
    /\ uv_pc' = "Start"
    /\ uv_blocked' = FALSE
    /\ uv_selections' = <<>>
    /\ uv_failures' = 0
    /\ pin_retries' = MaxPinRetries
    /\ ux_events' = <<>>
    /\ uv_request' \in UserVerifiableRequests
    /\ UNCHANGED <<info, uv_call>>
    /\ UNCHANGED uvOthers

----------------------------------------------------------------------------
(* The CTAP2 codec: serde's derived Serialize / Deserialize of the         *)
(* credential type and the credential descriptor, and canonical CBOR.      *)
(* Bytes are integers 0..255 and wire data is a sequence of bytes.         *)

\* The UTF-8 bytes of the strings the codec writes or compares with.
Utf8(s) ==
    CASE s = "alg" -> <<97, 108, 103>>
      [] s = "type" -> <<116, 121, 112, 101>>
      [] s = "id" -> <<105, 100>>
      [] s = "transports" -> <<116, 114, 97, 110, 115, 112, 111, 114, 116, 115>>
      [] s = "public-key" -> <<112, 117, 98, 108, 105, 99, 45, 107, 101, 121>>
      [] s = "Unknown" -> <<85, 110, 107, 110, 111, 119, 110>>
      [] s = "unknown" -> <<117, 110, 107, 110, 111, 119, 110>>
      [] s = "ble" -> <<98, 108, 101>>
      [] s = "nfc" -> <<110, 102, 99>>
      [] s = "usb" -> <<117, 115, 98>>
      [] s = "internal" -> <<105, 110, 116, 101, 114, 110, 97, 108>>
      [] s = "hybrid" -> <<104, 121, 98, 114, 105, 100>>
      [] s = "x" -> <<120>>
      [] s = "ga" -> <<103, 97>>
      [] s = "mc" -> <<109, 99>>
      [] s = "FIDO_2_0" -> <<70, 73, 68, 79, 95, 50, 95, 48>>
      [] s = "FIDO_2_1" -> <<70, 73, 68, 79, 95, 50, 95, 49>>
      [] s = "FIDO_2_1_PRE" -> <<70, 73, 68, 79, 95, 50, 95, 49, 95, 80, 82, 69>>
      [] s = "U2F_V2" -> <<85, 50, 70, 95, 86, 50>>
      [] OTHER -> <<>>

\* A CBOR head: the major type and its argument in the shortest form.
EncodeHead(major, n) ==
    IF n < 24 THEN <<major * 32 + n>>
    ELSE IF n < 256 THEN <<major * 32 + 24, n>>
    ELSE IF n < 65536 THEN <<major * 32 + 25, n \div 256, n % 256>>
    ELSE <<major * 32 + 26, n \div 16777216, (n \div 65536) % 256,
           (n \div 256) % 256, n % 256>>

\* A slip: a negative integer is written as its absolute value.
EncodeInteger_absolute(n) == IF n >= 0 THEN EncodeHead(0, n) ELSE EncodeHead(1, -n)

\* serialize_i32: major type 0 for n >= 0, major type 1 (-1 - n) below.
EncodeInteger(n) == IF n >= 0 THEN EncodeHead(0, n) ELSE EncodeHead(1, -1 - n)

EncodeText(s) == EncodeHead(3, Len(Utf8(s))) \o Utf8(s)

EncodeBytes(b) == EncodeHead(2, Len(b)) \o b

RECURSIVE Concat(_)
Concat(seqs) == IF seqs = <<>> THEN <<>> ELSE seqs[1] \o Concat(Tail(seqs))

EncodeArray(items) == EncodeHead(4, Len(items)) \o Concat(items)

\* Ctap2PublicKeyCredentialType, Ctap2COSEAlgorithmIdentifier, Ctap2Transport.
Ctap2PublicKeyCredentialType == {"PublicKey", "Unknown"}

Ctap2COSEAlgorithmIdentifier == {"ES256", "EDDSA", "TOPT", "Unknown"}

Ctap2Transport == {"Ble", "Nfc", "Usb", "Internal", "Hybrid"}

\* #[repr(i32)]: the discriminant Serialize_repr writes.
Discriminant(algorithm) ==
    CASE algorithm = "ES256" -> -7
      [] algorithm = "EDDSA" -> -8
      [] algorithm = "TOPT" -> -9
      [] algorithm = "Unknown" -> -999

\* The name derive(Serialize) writes for a unit variant: its rename, or the
\* variant's own name (serde(other) renames nothing).
VariantName(public_key_type) ==
    IF public_key_type = "PublicKey" THEN "public-key" ELSE "Unknown"

\* serde(rename_all = "lowercase").
TransportName(t) ==
    CASE t = "Ble" -> "ble"
      [] t = "Nfc" -> "nfc"
      [] t = "Usb" -> "usb"
      [] t = "Internal" -> "internal"
      [] t = "Hybrid" -> "hybrid"

Ctap2CredentialType ==
    [algorithm : Ctap2COSEAlgorithmIdentifier,
     public_key_type : Ctap2PublicKeyCredentialType]

\* Option<Vec<Ctap2Transport>>.
NoTransports == <<"None">>
SomeTransports(list) == <<"Some", list>>

\* The longest credential id and transport list that are serialized.
MaxIdLen == 2
MaxTransports == 2

IdBytes == {66, 0}

CredentialIds == UNION {[1..n -> IdBytes] : n \in 0..MaxIdLen}

TransportLists ==
    {NoTransports} \cup
    {SomeTransports(l) : l \in UNION {[1..n -> {"Usb", "Internal"}] : n \in 0..MaxTransports}}

Ctap2PublicKeyCredentialDescriptor ==
    [id : CredentialIds, type : Ctap2PublicKeyCredentialType,
     transports : TransportLists]

\* A map entry: the encoded key and the encoded value.
Entry(key, value) == <<key, value>>

\* derive(Serialize) of Ctap2CredentialType: the fields in declaration order.
serialize_Ctap2CredentialType(v) ==
    << Entry(EncodeText("alg"), EncodeInteger(Discriminant(v.algorithm))),
       Entry(EncodeText("type"), EncodeText(VariantName(v.public_key_type))) >>

\* derive(Serialize) of Ctap2PublicKeyCredentialDescriptor: id, type, and
\* transports unless it is None (skip_serializing_if).
serialize_Ctap2PublicKeyCredentialDescriptor(v) ==
    << Entry(EncodeText("id"), EncodeBytes(v.id)),
       Entry(EncodeText("type"), EncodeText(VariantName(v.type))) >>
    \o (IF v.transports = NoTransports THEN <<>>
        ELSE << Entry(EncodeText("transports"),
                      EncodeArray([i \in 1..Len(v.transports[2]) |->
                                      EncodeText(TransportName(v.transports[2][i]))])) >>)

\* ClientPayloadHint, serde(rename = "ga" / "mc").
ClientPayloadHint == {"GetAssertion", "MakeCredential"}

HintName(hint) == IF hint = "GetAssertion" THEN "ga" ELSE "mc"

\* link_id is 8 bytes and the client nonce 16; two samples of each.
LinkIds == {[i \in 1..8 |-> 17 * i], [i \in 1..8 |-> 0]}

ClientNonces == {[i \in 1..16 |-> i], [i \in 1..16 |-> 255]}

ClientPayload ==
    [link_id : LinkIds, client_nonce : ClientNonces, hint : ClientPayloadHint]

\* SerializeIndexed of ClientPayload: an unsigned integer key per field, the
\* serde(index), in declaration order.
serialize_ClientPayload(v) ==
    << Entry(EncodeHead(0, 1), EncodeBytes(v.link_id)),
       Entry(EncodeHead(0, 2), EncodeBytes(v.client_nonce)),
       Entry(EncodeHead(0, 3), EncodeText(HintName(v.hint))) >>

\* Bytewise lexicographic order; a proper prefix comes first.
RECURSIVE LexLess(_, _)
LexLess(a, b) ==
    IF b = <<>> THEN FALSE
    ELSE IF a = <<>> THEN TRUE
    ELSE IF a[1] # b[1] THEN a[1] < b[1]
    ELSE LexLess(Tail(a), Tail(b))

\* A slip: keys are ordered by their text alone, whatever their length.
KeyLess_by_text(a, b) == LexLess(Tail(a), Tail(b))

\* Canonical CTAP2 key order on encoded keys: the shorter key first, keys of
\* one length bytewise (so integers by value, strings by length, then lex).
KeyLess(a, b) ==
    \/ Len(a) < Len(b)
    \/ Len(a) = Len(b) /\ LexLess(a, b)

RECURSIVE InsertEntry(_, _)
InsertEntry(e, sorted) ==
    IF sorted = <<>> THEN <<e>>
    ELSE IF KeyLess(e[1], sorted[1][1]) THEN <<e>> \o sorted
    ELSE <<sorted[1]>> \o InsertEntry(e, Tail(sorted))

RECURSIVE SortEntries(_)
SortEntries(entries) ==
    IF entries = <<>> THEN <<>>
    ELSE InsertEntry(entries[1], SortEntries(Tail(entries)))

\* cbor::to_vec of a struct: a map of its entries in canonical key order.
to_vec(entries) ==
    LET sorted == SortEntries(entries)
    IN  EncodeHead(5, Len(sorted))
            \o Concat([i \in 1..Len(sorted) |-> sorted[i][1] \o sorted[i][2]])

\* ------------------------------------------------------------------------
\* Reading CBOR.

MajorAt(bytes, pos) == bytes[pos] \div 32
InfoAt(bytes, pos) == bytes[pos] % 32

\* The length of the head at pos; 0 when it is none the decoder accepts.
HeadLen(bytes, pos) ==
    IF pos > Len(bytes) THEN 0
    ELSE LET i == InfoAt(bytes, pos)
         IN  CHOOSE len \in
                 {IF n = 0 \/ pos + n - 1 > Len(bytes) THEN 0 ELSE n :
                     n \in {IF i < 24 THEN 1
                            ELSE IF i = 24 THEN 2
                            ELSE IF i = 25 THEN 3
                            ELSE IF i = 26 THEN 5
                            ELSE IF i = 27 THEN 9
                            ELSE 0}} : TRUE

\* The argument's bytes, big endian (empty when it sits in the head byte).
ArgBytes(bytes, pos) == SubSeq(bytes, pos + 1, pos + HeadLen(bytes, pos) - 1)

\* The argument is below 2^31.
ArgBelow2p31(bytes, pos) ==
    \A a \in {ArgBytes(bytes, pos)} :
        CASE Len(a) <= 2 -> TRUE
          [] Len(a) = 4 -> a[1] < 128
          [] OTHER -> a[1] = 0 /\ a[2] = 0 /\ a[3] = 0 /\ a[4] = 0 /\ a[5] < 128

RECURSIVE BigEndian(_)
BigEndian(a) ==
    IF a = <<>> THEN 0 ELSE BigEndian(SubSeq(a, 1, Len(a) - 1)) * 256 + a[Len(a)]

\* The argument's value, for an argument below 2^31.
ArgValue(bytes, pos) ==
    CHOOSE value \in
        {IF a = <<>> THEN InfoAt(bytes, pos)
         ELSE IF Len(a) = 8 THEN BigEndian(SubSeq(a, 5, 8))
         ELSE BigEndian(a) : a \in {ArgBytes(bytes, pos)}} : TRUE

\* The position after the item at pos; 0 when the data is not an item.
RECURSIVE ItemEnd(_, _)
RECURSIVE ItemsEnd(_, _, _)
ItemsEnd(bytes, pos, count) ==
    IF count = 0 \/ pos = 0 THEN pos
    ELSE CHOOSE end \in {ItemsEnd(bytes, next, count - 1) :
                             next \in {ItemEnd(bytes, pos)}} : TRUE

ItemEnd(bytes, pos) ==
    CHOOSE end \in
        {IF h = 0 THEN 0
         ELSE LET major == MajorAt(bytes, pos)
              IN  IF major \in {0, 1} THEN pos + h
                  ELSE IF major = 7 THEN (IF InfoAt(bytes, pos) < 24 THEN pos + h ELSE 0)
                  ELSE IF ~ArgBelow2p31(bytes, pos) THEN 0
                  ELSE LET n == ArgValue(bytes, pos)
                       IN  IF major \in {2, 3}
                           THEN (IF pos + h + n - 1 > Len(bytes) THEN 0 ELSE pos + h + n)
                           ELSE IF major \in {4, 5}
                           THEN ItemsEnd(bytes, pos + h, IF major = 4 THEN n ELSE 2 * n)
                           ELSE 0 :
            h \in {HeadLen(bytes, pos)}} : TRUE

\* The content of the text or byte string at pos.
StringAt(bytes, pos) ==
    SubSeq(bytes, pos + HeadLen(bytes, pos), ItemEnd(bytes, pos) - 1)

DecodeOk(v) == <<"Ok", v>>
DecodeErr(why) == <<"Err", why>>

\* Deserialize_repr of Ctap2COSEAlgorithmIdentifier: an i32 is read, then
\* matched against the discriminants; serde(other) takes every other i32.
deserialize_Ctap2COSEAlgorithmIdentifier(bytes, pos) ==
    IF MajorAt(bytes, pos) \notin {0, 1} THEN DecodeErr("invalid type")
    ELSE IF ~ArgBelow2p31(bytes, pos) THEN DecodeErr("invalid value")
    ELSE LET n == ArgValue(bytes, pos)
             i == IF MajorAt(bytes, pos) = 0 THEN n ELSE -1 - n
         IN  CASE i = -7 -> DecodeOk("ES256")
               [] i = -8 -> DecodeOk("EDDSA")
               [] i = -9 -> DecodeOk("TOPT")
               [] OTHER -> DecodeOk("Unknown")

\* A slip: a variant name that is not "public-key" is an error.
deserialize_Ctap2PublicKeyCredentialType_strict(bytes, pos) ==
    IF MajorAt(bytes, pos) # 3 THEN DecodeErr("invalid type")
    ELSE IF StringAt(bytes, pos) = Utf8("public-key") THEN DecodeOk("PublicKey")
    ELSE DecodeErr("unknown variant")

\* derive(Deserialize) of Ctap2PublicKeyCredentialType: a text string names
\* the variant; serde(other) takes every name that is not "public-key".
deserialize_Ctap2PublicKeyCredentialType(bytes, pos) ==
    IF MajorAt(bytes, pos) # 3 THEN DecodeErr("invalid type")
    ELSE IF StringAt(bytes, pos) = Utf8("public-key") THEN DecodeOk("PublicKey")
    ELSE DecodeOk("Unknown")

\* The field a map key names: by text or bytes, or by index.
FieldOf(bytes, pos) ==
    LET major == MajorAt(bytes, pos)
    IN  IF major \in {2, 3}
        THEN (IF StringAt(bytes, pos) = Utf8("alg") THEN "alg"
              ELSE IF StringAt(bytes, pos) = Utf8("type") THEN "type"
              ELSE "ignored")
        ELSE IF major = 0 /\ ArgBytes(bytes, pos) = <<>>
        THEN (IF InfoAt(bytes, pos) = 0 THEN "alg"
              ELSE IF InfoAt(bytes, pos) = 1 THEN "type"
              ELSE "ignored")
        ELSE "ignored"

Missing == <<"Missing">>

\* visit_map of the derived Deserialize of Ctap2CredentialType: the entries
\* in wire order, a field at most once, both fields required.
RECURSIVE visit_map(_, _, _, _, _)
visit_map(bytes, pos, entries, alg, type) ==
    IF entries = 0
    THEN IF alg = Missing \/ type = Missing THEN DecodeErr("missing field")
         ELSE IF pos <= Len(bytes) THEN DecodeErr("trailing data")
         ELSE DecodeOk([algorithm |-> alg[2], public_key_type |-> type[2]])
    ELSE CHOOSE result \in
             {IF next = 0 THEN DecodeErr("syntax")
              ELSE LET field == FieldOf(bytes, pos)
                   IN  IF field = "alg"
                       THEN IF alg # Missing THEN DecodeErr("duplicate field")
                            ELSE LET a == deserialize_Ctap2COSEAlgorithmIdentifier(bytes, value)
                                 IN  IF a[1] = "Err" THEN a
                                     ELSE visit_map(bytes, next, entries - 1, a, type)
                       ELSE IF field = "type"
                       THEN IF type # Missing THEN DecodeErr("duplicate field")
                            ELSE LET t == deserialize_Ctap2PublicKeyCredentialType(bytes, value)
                                 IN  IF t[1] = "Err" THEN t
                                     ELSE visit_map(bytes, next, entries - 1, alg, t)
                       ELSE visit_map(bytes, next, entries - 1, alg, type) :
                 value \in {ItemEnd(bytes, pos)},
                 next \in {ItemsEnd(bytes, pos, 2)}} : TRUE

\* serde_cbor::from_slice::<Ctap2CredentialType>.
deserialize_Ctap2CredentialType(bytes) ==
    IF HeadLen(bytes, 1) = 0 THEN DecodeErr("syntax")
    ELSE IF MajorAt(bytes, 1) # 5 THEN DecodeErr("invalid type")
    ELSE IF ~ArgBelow2p31(bytes, 1) THEN DecodeErr("syntax")
    ELSE visit_map(bytes, 1 + HeadLen(bytes, 1), ArgValue(bytes, 1), Missing, Missing)

\* Ctap2CredentialType::is_known.
is_known(v) == v.algorithm # "Unknown" /\ v.public_key_type # "Unknown"

\* What an authenticator may send as the alg value: -7, -8, -9, -42, -999,
\* 0, -257, 2^31 - 1, and the integers 2^31 and -2^31 - 1 beyond an i32.
AlgItems ==
    { <<38>>, <<39>>, <<40>>, <<56, 41>>, <<57, 3, 230>>, <<0>>, <<57, 1, 0>>,
      <<26, 127, 255, 255, 255>>, <<26, 128, 0, 0, 0>>, <<58, 128, 0, 0, 0>> }

TypeNames == {"public-key", "unknown", "Unknown", "x"}

\* The credential type maps an authenticator may send: both fields, in
\* either order.
WireCredentialType(a, t, alg_first) ==
    IF alg_first
    THEN EncodeHead(5, 2) \o EncodeText("alg") \o a \o EncodeText("type") \o EncodeText(t)
    ELSE EncodeHead(5, 2) \o EncodeText("type") \o EncodeText(t) \o EncodeText("alg") \o a

WireCredentialTypes ==
    {WireCredentialType(a, t, f) : a \in AlgItems, t \in TypeNames, f \in BOOLEAN}

NoCodecValue ==
    [kind |-> "-", algorithm |-> "-", public_key_type |-> "-", id |-> <<>>,
     transports |-> NoTransports, client_nonce |-> <<>>, hint |-> "-"]

CredentialTypeValue(v) ==
    [kind |-> "Ctap2CredentialType", algorithm |-> v.algorithm,
     public_key_type |-> v.public_key_type, id |-> <<>>, transports |-> NoTransports,
     client_nonce |-> <<>>, hint |-> "-"]

CredentialDescriptorValue(v) ==
    [kind |-> "Ctap2PublicKeyCredentialDescriptor", algorithm |-> "-",
     public_key_type |-> v.type, id |-> v.id, transports |-> v.transports,
     client_nonce |-> <<>>, hint |-> "-"]

\* A ClientPayload; id holds its link_id.
ClientPayloadValue(v) ==
    [kind |-> "ClientPayload", algorithm |-> "-", public_key_type |-> "-",
     id |-> v.link_id, transports |-> NoTransports,
     client_nonce |-> v.client_nonce, hint |-> v.hint]

NotDecoded == [done |-> FALSE, result |-> <<"-", "-">>, is_known |-> FALSE]

CodecInit ==
    /\ ser_value = NoCodecValue
    /\ ser_bytes = <<>>
    /\ de_result = NotDecoded

\* cbor::to_vec(&credential_type).
SerializeCredentialType ==
    \E v \in Ctap2CredentialType :
        /\ ser_value' = CredentialTypeValue(v)
        /\ ser_bytes' = to_vec(serialize_Ctap2CredentialType(v))
        /\ de_result' = NotDecoded
        /\ UNCHANGED codecOthers

\* cbor::to_vec(&credential_descriptor).
SerializeCredentialDescriptor ==
    \E v \in Ctap2PublicKeyCredentialDescriptor :
        /\ ser_value' = CredentialDescriptorValue(v)
        /\ ser_bytes' = to_vec(serialize_Ctap2PublicKeyCredentialDescriptor(v))
        /\ de_result' = NotDecoded
        /\ UNCHANGED codecOthers

\* The client payload of a known-device connection is serialized.
SerializeClientPayload ==
    \E v \in ClientPayload :
        /\ ser_value' = ClientPayloadValue(v)
        /\ ser_bytes' = to_vec(serialize_ClientPayload(v))
        /\ de_result' = NotDecoded
        /\ UNCHANGED codecOthers

\* A credential type arrives from an authenticator.
ReceiveCredentialType ==
    \E bytes \in WireCredentialTypes :
        /\ ser_value' = NoCodecValue
        /\ ser_bytes' = bytes
        /\ de_result' = NotDecoded
        /\ UNCHANGED codecOthers

\* serde_cbor::from_slice(&serialized), then is_known() on the result.
DeserializeCredentialType ==
    /\ ser_bytes # <<>>
    /\ ser_value.kind \in {"-", "Ctap2CredentialType"}
    /\ ~de_result.done
    /\ LET r == deserialize_Ctap2CredentialType(ser_bytes)
       IN  de_result' = [done |-> TRUE, result |-> r,
                         is_known |-> IF r[1] = "Ok" THEN is_known(r[2]) ELSE FALSE]
    /\ UNCHANGED <<ser_value, ser_bytes>>
    /\ UNCHANGED codecOthers

CodecNext ==
    \/ SerializeCredentialType
    \/ SerializeCredentialDescriptor
    \/ SerializeClientPayload
    \/ ReceiveCredentialType
    \/ DeserializeCredentialType

----------------------------------------------------------------------------
(* The CTAP2 protocol layer: impl<C: Channel> Ctap2 for C.                 *)

\* Ctap2CommandCode, by its repr(u8) value.
AuthenticatorMakeCredential == 1
AuthenticatorGetAssertion == 2
AuthenticatorGetInfo == 4
AuthenticatorClientPin == 6
AuthenticatorGetNextAssertion == 8
AuthenticatorBioEnrollment == 9
AuthenticatorBioEnrollmentPreview == 64
AuthenticatorCredentialManagement == 10
AuthenticatorCredentialManagementPreview == 65
AuthenticatorSelection == 11
AuthenticatorConfig == 13

\* Milliseconds.
TIMEOUT_GET_INFO == 250

\* The timeouts a caller passes, in milliseconds; one equals TIMEOUT_GET_INFO.
CallerTimeouts == {TIMEOUT_GET_INFO, 10000}

\* CtapError status codes a response carries.
CtapError == {"Ok", "PinInvalid", "UvBlocked"}

\* Response bodies: every byte string over CborBytes up to MaxBodyLen bytes,
\* a two-entry map of small integers and the same cut short, and the GetInfo
\* responses of authenticators that report the version lists of VersionLists.
MaxBodyLen == 3

\* 0xA0, 0xA1: map headers; 1, 3: small unsigned integers; 0xFF: a break code.
CborBytes == {160, 161, 1, 3, 255}

VersionLists ==
    {<<"FIDO_2_1">>, <<"U2F_V2", "FIDO_2_0">>, <<"FIDO_2_0", "FIDO_2_1">>,
     <<"FIDO_2_1_PRE">>, <<>>}

\* The 16 bytes of an AAGUID.
Aaguid == [i \in 1..16 |-> 15 * i]

\* {0x01: versions, 0x03: aaguid}, as an authenticator writes it.
GetInfoBody(versions) ==
    EncodeHead(5, 2)
        \o EncodeInteger(1)
        \o EncodeArray([i \in 1..Len(versions) |-> EncodeText(versions[i])])
        \o EncodeInteger(3) \o EncodeBytes(Aaguid)

\* {0x01: ["FIDO_2_1"], 0x02: ["ga"], 0x03: aaguid, 0x05: null}.
GetInfoBodyWithExtensions ==
    EncodeHead(5, 4)
        \o EncodeInteger(1) \o EncodeArray(<<EncodeText("FIDO_2_1")>>)
        \o EncodeInteger(2) \o EncodeArray(<<EncodeText("ga")>>)
        \o EncodeInteger(3) \o EncodeBytes(Aaguid)
        \o EncodeInteger(5) \o <<246>>

Bodies ==
    UNION {[1..n -> CborBytes] : n \in 0..MaxBodyLen}
        \cup {<<162, 1, 1, 3, 3>>, <<162, 1, 1, 3>>}
        \cup {GetInfoBody(versions) : versions \in VersionLists}
        \cup {GetInfoBodyWithExtensions}

\* Result<T, Error>.
NoValue == [type |-> "-", fields |-> {}]
NoError == <<"-", "-">>
Ok(v) == [ok |-> TRUE, value |-> v, err |-> NoError]
Err(kind, detail) == [ok |-> FALSE, value |-> NoValue, err |-> <<kind, detail>>]

\* A typed response: its type and the fields present, as (index, value) pairs.
Typed(type, fields) == [type |-> type, fields |-> fields]

\* ().
Unit == Typed("()", {})

\* T::default(): every field absent.
Default(type) == Typed(type, {})

\* The fields of a response type that are not Option: versions (0x01) and
\* aaguid (0x03) of Ctap2GetInfoResponse; the management responses have none.
RequiredFields(type) ==
    IF type = "Ctap2GetInfoResponse" THEN {1, 3} ELSE {}

\* The type of the field a response type declares at an index; the response
\* types other than Ctap2GetInfoResponse take any value at any index.
FieldKind(type, index) ==
    IF type # "Ctap2GetInfoResponse" THEN "any"
    ELSE CASE index \in {1, 2, 9, 22, 26} -> "Vec<String>"
           [] index \in {3, 25, 28} -> "ByteBuf"
           [] index = 4 -> "HashMap<String, bool>"
           [] index \in {6, 21} -> "Vec<u32>"
           [] index = 10 -> "Vec<Ctap2CredentialType>"
           [] index \in {12, 24, 27} -> "bool"
           [] index = 19 -> "HashMap<String, u32>"
           [] index \in {5, 7, 8, 11, 13, 14, 15, 16, 17, 18, 20, 23, 29} -> "u32"
           [] OTHER -> "undeclared"

\* The positions of count items in a row, the first at pos.
RECURSIVE ItemStarts(_, _, _)
ItemStarts(bytes, pos, count) ==
    IF count = 0 THEN <<>>
    ELSE CHOOSE starts \in {<<pos>> \o ItemStarts(bytes, next, count - 1) :
                                next \in {ItemEnd(bytes, pos)}} : TRUE

\* The positions of the items in the array or map at pos (keys and values in
\* turn), and the bytes of the item at pos.
Children(bytes, pos) ==
    ItemStarts(bytes, pos + HeadLen(bytes, pos),
               IF MajorAt(bytes, pos) = 5 THEN 2 * ArgValue(bytes, pos)
               ELSE ArgValue(bytes, pos))

Item(bytes, pos) == SubSeq(bytes, pos, ItemEnd(bytes, pos) - 1)

\* What serde's visitors take for a value that is not a container, on a
\* well-formed item.  A String is taken from a text and from a byte string;
\* the model's strings are ASCII.
IsNull(bytes, pos) == bytes[pos] = 246

ScalarOk(kind, bytes, pos) ==
    CASE kind = "bool" -> bytes[pos] \in {244, 245}
      [] kind = "u8" -> MajorAt(bytes, pos) = 0 /\ HeadLen(bytes, pos) <= 2
      [] kind = "u32" ->
            /\ MajorAt(bytes, pos) = 0
            /\ \A a \in {ArgBytes(bytes, pos)} :
                   Len(a) <= 4 \/ SubSeq(a, 1, 4) = <<0, 0, 0, 0>>
      [] kind = "String" ->
            /\ MajorAt(bytes, pos) \in {2, 3}
            /\ \A s \in {StringAt(bytes, pos)} : \A k \in 1..Len(s) : s[k] < 128
      [] kind = "Ctap2CredentialType" ->
            deserialize_Ctap2CredentialType(Item(bytes, pos))[1] = "Ok"
      [] OTHER -> TRUE

\* The containers: the major type of a Vec (and of a ByteBuf given as an
\* array) or a HashMap, and the kind of its k-th item, keys and values in turn.
ContainerMajor(kind) ==
    IF kind \in {"HashMap<String, bool>", "HashMap<String, u32>"} THEN 5 ELSE 4

ElementKind(kind, k) ==
    CASE kind = "Vec<String>" -> "String"
      [] kind = "Vec<u32>" -> "u32"
      [] kind = "Vec<Ctap2CredentialType>" -> "Ctap2CredentialType"
      [] kind = "ByteBuf" -> "u8"
      [] kind = "HashMap<String, bool>" -> IF k % 2 = 1 THEN "String" ELSE "bool"
      [] kind = "HashMap<String, u32>" -> IF k % 2 = 1 THEN "String" ELSE "u32"
      [] OTHER -> "any"

\* A ByteBuf is also taken from a byte or text string.
KindOk(kind, bytes, pos) ==
    IF kind \in {"u32", "bool", "any"} THEN ScalarOk(kind, bytes, pos)
    ELSE \/ kind = "ByteBuf" /\ MajorAt(bytes, pos) \in {2, 3}
         \/ /\ MajorAt(bytes, pos) = ContainerMajor(kind)
            /\ \A c \in {Children(bytes, pos)} :
                   \A k \in 1..Len(c) : ScalarOk(ElementKind(kind, k), bytes, c[k])

\* The map of a type deriving DeserializeIndexed, its keys and values at the
\* positions c: the keys must be unsigned integers, no key twice.  An index
\* the type does not declare is skipped and a null at an Option field leaves
\* it absent; every other value must be of its field's type, and the fields
\* that are not Option must be there.  The result holds the fields present,
\* each with the bytes of its value.
deserialize_indexed(type, data, c) ==
    LET n == Len(c) \div 2
        index(k) == ArgValue(data, c[2 * k - 1])
        present ==
            {k \in 1..n :
                /\ FieldKind(type, index(k)) # "undeclared"
                /\ ~(/\ index(k) \notin RequiredFields(type)
                     /\ IsNull(data, c[2 * k]))}
    IN  IF /\ \A k \in 1..n :
                  /\ MajorAt(data, c[2 * k - 1]) = 0
                  /\ ArgBelow2p31(data, c[2 * k - 1])
           /\ Cardinality({index(k) : k \in 1..n}) = n
           /\ \A k \in present :
                  KindOk(FieldKind(type, index(k)), data, c[2 * k])
           /\ RequiredFields(type) \subseteq {index(k) : k \in present}
        THEN Ok(Typed(type, {<<index(k), Item(data, c[2 * k])>> : k \in present}))
        ELSE Err("cbor", "parse")

\* cbor::from_slice::<type>(data): data must be exactly one map, no byte
\* missing and none left over.
from_slice(type, data) ==
    IF HeadLen(data, 1) = 0 THEN Err("cbor", "parse")
    ELSE IF MajorAt(data, 1) # 5 \/ ItemEnd(data, 1) # Len(data) + 1
    THEN Err("cbor", "parse")
    ELSE CHOOSE result \in {deserialize_indexed(type, data, c) :
                               c \in {Children(data, 1)}} : TRUE

\* The strings of the Vec<String> field at an index; none when it is absent.
Strings(response, index) ==
    LET held == {f \in response.fields : f[1] = index} IN
    IF held = {} THEN <<>>
    ELSE CHOOSE strings \in
             UNION {{[k \in 1..Len(c) |-> StringAt(f[2], c[k])] :
                        c \in {Children(f[2], 1)}} : f \in held} : TRUE

\* A slip: every FIDO_2_1 flavour counts, FIDO_2_1_PRE too.
supports_fido_2_1_by_prefix(response) ==
    \E versions \in {Strings(response, 1)} :
        \E k \in 1..Len(versions) :
            /\ Len(versions[k]) >= Len(Utf8("FIDO_2_1"))
            /\ SubSeq(versions[k], 1, Len(Utf8("FIDO_2_1"))) = Utf8("FIDO_2_1")

\* Ctap2GetInfoResponse::supports_fido_2_1.
supports_fido_2_1(response) ==
    \E versions \in {Strings(response, 1)} :
        \E k \in 1..Len(versions) : versions[k] = Utf8("FIDO_2_1")

\* What a method did: the channel operations it issued, its return value and
\* whether it handed the body to the decoder.
Ret(ops, result, parsed) == [ops |-> ops, result |-> result, parsed |-> parsed]

\* CborRequest::new(command): a command without parameters; request.into():
\* the command of the request with its parameter map.
CborRequest_new(command) == [command |-> command, has_params |-> FALSE]
into_CborRequest(request) == [command |-> request.command, has_params |-> TRUE]

SendOp(cbor_request, timeout) ==
    [op |-> "cbor_send", command |-> {cbor_request.command},
     has_params |-> cbor_request.has_params, timeout |-> timeout]
RecvOp(timeout) ==
    [op |-> "cbor_recv", command |-> {}, has_params |-> FALSE, timeout |-> timeout]

\* unwrap_field!(cbor_response.data): an absent field ends the method.
unwrap_field_error == Err("Platform", "InvalidDeviceResponse")

\* parse_cbor!(type, &data), after the operations ops.
parse_cbor(type, data, ops) ==
    CHOOSE ret \in
        {IF f.ok
         THEN Ret(ops, Ok(f.value), TRUE)
         ELSE Ret(ops, Err("Platform", "InvalidDeviceResponse"), TRUE) :
            f \in {from_slice(type, data)}} : TRUE

\* The outcome of self.cbor_send(..).await and of self.cbor_recv(..).await.
SendOk == [ok |-> TRUE, err |-> NoError]
SendErr(detail) == [ok |-> FALSE, err |-> <<"Transport", detail>>]
RecvErr(detail) ==
    [ok |-> FALSE, err |-> <<"Transport", detail>>, status_code |-> "-",
     has_data |-> FALSE, data |-> <<>>]
CborResponse(status, has_data, data) ==
    [ok |-> TRUE, err |-> NoError, status_code |-> status,
     has_data |-> has_data, data |-> data]
NotReceived == RecvErr("-")

SendOutcomes ==
    {SendOk} \cup {SendErr(e) : e \in {"Timeout", "TransportUnavailable", "InvalidFraming"}}

RecvOutcomes ==
    {RecvErr(e) : e \in {"Timeout", "TransportUnavailable"}}
        \cup {CborResponse(st, FALSE, <<>>) : st \in CtapError}
        \cup {CborResponse(st, TRUE, d) : st \in CtapError, d \in Bodies}

\* The ? operator on a transport error: the error, unchanged.
Propagate(outcome) == [ok |-> FALSE, value |-> NoValue, err |-> outcome.err]

\* ctap2_get_info: no parameters; the fixed timeout on both operations.
ctap2_get_info(send, recv) ==
    LET sent == <<SendOp(CborRequest_new(AuthenticatorGetInfo), TIMEOUT_GET_INFO)>>
        both == Append(sent, RecvOp(TIMEOUT_GET_INFO))
    IN  IF ~send.ok THEN Ret(sent, Propagate(send), FALSE)
        ELSE IF ~recv.ok THEN Ret(both, Propagate(recv), FALSE)
        ELSE IF recv.status_code # "Ok"
             THEN Ret(both, Err("Ctap", recv.status_code), FALSE)
        ELSE IF ~recv.has_data THEN Ret(both, unwrap_field_error, FALSE)
        ELSE parse_cbor("Ctap2GetInfoResponse", recv.data, both)

\* A slip: cbor_recv is given TIMEOUT_GET_INFO instead of the caller's timeout.
ctap2_make_credential_recv_timeout(request, timeout, send, recv) ==
    LET sent == <<SendOp(into_CborRequest(request), timeout)>>
        both == Append(sent, RecvOp(TIMEOUT_GET_INFO))
    IN  IF ~send.ok THEN Ret(sent, Propagate(send), FALSE)
        ELSE IF ~recv.ok THEN Ret(both, Propagate(recv), FALSE)
        ELSE IF recv.status_code # "Ok"
             THEN Ret(both, Err("Ctap", recv.status_code), FALSE)
        ELSE IF ~recv.has_data THEN Ret(both, unwrap_field_error, FALSE)
        ELSE parse_cbor("Ctap2MakeCredentialResponse", recv.data, both)

\* ctap2_make_credential.
ctap2_make_credential(request, timeout, send, recv) ==
    LET sent == <<SendOp(into_CborRequest(request), timeout)>>
        both == Append(sent, RecvOp(timeout))
    IN  IF ~send.ok THEN Ret(sent, Propagate(send), FALSE)
        ELSE IF ~recv.ok THEN Ret(both, Propagate(recv), FALSE)
        ELSE IF recv.status_code # "Ok"
             THEN Ret(both, Err("Ctap", recv.status_code), FALSE)
        ELSE IF ~recv.has_data THEN Ret(both, unwrap_field_error, FALSE)
        ELSE parse_cbor("Ctap2MakeCredentialResponse", recv.data, both)

\* A slip: cbor_recv is issued although cbor_send failed.
ctap2_get_assertion_recv_anyway(request, timeout, send, recv) ==
    LET sent == <<SendOp(into_CborRequest(request), timeout)>>
        both == Append(sent, RecvOp(timeout))
    IN  IF ~send.ok THEN Ret(both, Propagate(send), FALSE)
        ELSE IF ~recv.ok THEN Ret(both, Propagate(recv), FALSE)
        ELSE IF recv.status_code # "Ok"
             THEN Ret(both, Err("Ctap", recv.status_code), FALSE)
        ELSE IF ~recv.has_data THEN Ret(both, unwrap_field_error, FALSE)
        ELSE parse_cbor("Ctap2GetAssertionResponse", recv.data, both)

\* ctap2_get_assertion.
ctap2_get_assertion(request, timeout, send, recv) ==
    LET sent == <<SendOp(into_CborRequest(request), timeout)>>
        both == Append(sent, RecvOp(timeout))
    IN  IF ~send.ok THEN Ret(sent, Propagate(send), FALSE)
        ELSE IF ~recv.ok THEN Ret(both, Propagate(recv), FALSE)
        ELSE IF recv.status_code # "Ok"
             THEN Ret(both, Err("Ctap", recv.status_code), FALSE)
        ELSE IF ~recv.has_data THEN Ret(both, unwrap_field_error, FALSE)
        ELSE parse_cbor("Ctap2GetAssertionResponse", recv.data, both)

\* A slip: an absent body gives the default response.
ctap2_get_next_assertion_default(timeout, send, recv) ==
    LET sent == <<SendOp(CborRequest_new(AuthenticatorGetNextAssertion), timeout)>>
        both == Append(sent, RecvOp(timeout))
    IN  IF ~send.ok THEN Ret(sent, Propagate(send), FALSE)
        ELSE IF ~recv.ok THEN Ret(both, Propagate(recv), FALSE)
        ELSE IF ~recv.has_data
             THEN Ret(both, Ok(Default("Ctap2GetAssertionResponse")), FALSE)
        ELSE parse_cbor("Ctap2GetAssertionResponse", recv.data, both)

\* ctap2_get_next_assertion: the status code of the response is not looked at.
ctap2_get_next_assertion(timeout, send, recv) ==
    LET sent == <<SendOp(CborRequest_new(AuthenticatorGetNextAssertion), timeout)>>
        both == Append(sent, RecvOp(timeout))
    IN  IF ~send.ok THEN Ret(sent, Propagate(send), FALSE)
        ELSE IF ~recv.ok THEN Ret(both, Propagate(recv), FALSE)
        ELSE IF ~recv.has_data THEN Ret(both, unwrap_field_error, FALSE)
        ELSE parse_cbor("Ctap2GetAssertionResponse", recv.data, both)

\* ctap2_selection: the body is not looked at.
ctap2_selection(timeout, send, recv) ==
    LET sent == <<SendOp(CborRequest_new(AuthenticatorSelection), timeout)>>
        both == Append(sent, RecvOp(timeout))
    IN  IF ~send.ok THEN Ret(sent, Propagate(send), FALSE)
        ELSE IF ~recv.ok THEN Ret(both, Propagate(recv), FALSE)
        ELSE IF recv.status_code = "Ok" THEN Ret(both, Ok(Unit), FALSE)
        ELSE Ret(both, Err("Ctap", recv.status_code), FALSE)

\* A slip: the body is unwrapped as in ctap2_make_credential, with no default.
ctap2_client_pin_unwraps(request, timeout, send, recv) ==
    LET sent == <<SendOp(into_CborRequest(request), timeout)>>
        both == Append(sent, RecvOp(timeout))
    IN  IF ~send.ok THEN Ret(sent, Propagate(send), FALSE)
        ELSE IF ~recv.ok THEN Ret(both, Propagate(recv), FALSE)
        ELSE IF recv.status_code # "Ok"
             THEN Ret(both, Err("Ctap", recv.status_code), FALSE)
        ELSE IF ~recv.has_data THEN Ret(both, unwrap_field_error, FALSE)
        ELSE parse_cbor("Ctap2ClientPinResponse", recv.data, both)

\* ctap2_client_pin: an absent body gives Ctap2ClientPinResponse::default().
ctap2_client_pin(request, timeout, send, recv) ==
    LET sent == <<SendOp(into_CborRequest(request), timeout)>>
        both == Append(sent, RecvOp(timeout))
    IN  IF ~send.ok THEN Ret(sent, Propagate(send), FALSE)
        ELSE IF ~recv.ok THEN Ret(both, Propagate(recv), FALSE)
        ELSE IF recv.status_code # "Ok"
             THEN Ret(both, Err("Ctap", recv.status_code), FALSE)
        ELSE IF recv.has_data THEN parse_cbor("Ctap2ClientPinResponse", recv.data, both)
        ELSE Ret(both, Ok(Default("Ctap2ClientPinResponse")), FALSE)

\* A slip: the body of an Ok response is decoded, as in ctap2_client_pin.
ctap2_authenticator_config_decodes(request, timeout, send, recv) ==
    LET sent == <<SendOp(into_CborRequest(request), timeout)>>
        both == Append(sent, RecvOp(timeout))
    IN  IF ~send.ok THEN Ret(sent, Propagate(send), FALSE)
        ELSE IF ~recv.ok THEN Ret(both, Propagate(recv), FALSE)
        ELSE IF recv.status_code # "Ok"
             THEN Ret(both, Err("Ctap", recv.status_code), FALSE)
        ELSE IF recv.has_data THEN parse_cbor("Ctap2ClientPinResponse", recv.data, both)
        ELSE Ret(both, Ok(Default("Ctap2ClientPinResponse")), FALSE)

\* ctap2_authenticator_config: the body is not looked at.
ctap2_authenticator_config(request, timeout, send, recv) ==
    LET sent == <<SendOp(into_CborRequest(request), timeout)>>
        both == Append(sent, RecvOp(timeout))
    IN  IF ~send.ok THEN Ret(sent, Propagate(send), FALSE)
        ELSE IF ~recv.ok THEN Ret(both, Propagate(recv), FALSE)
        ELSE IF recv.status_code = "Ok" THEN Ret(both, Ok(Unit), FALSE)
        ELSE Ret(both, Err("Ctap", recv.status_code), FALSE)

\* A slip: a body that does not decode gives the default response too.
ctap2_bio_enrollment_lenient(request, timeout, send, recv) ==
    LET sent == <<SendOp(into_CborRequest(request), timeout)>>
        both == Append(sent, RecvOp(timeout))
    IN  IF ~send.ok THEN Ret(sent, Propagate(send), FALSE)
        ELSE IF ~recv.ok THEN Ret(both, Propagate(recv), FALSE)
        ELSE IF recv.status_code # "Ok"
             THEN Ret(both, Err("Ctap", recv.status_code), FALSE)
        ELSE IF recv.has_data /\ from_slice("Ctap2BioEnrollmentResponse", recv.data).ok
             THEN parse_cbor("Ctap2BioEnrollmentResponse", recv.data, both)
        ELSE Ret(both, Ok(Default("Ctap2BioEnrollmentResponse")), recv.has_data)

\* ctap2_bio_enrollment: an absent body gives Ctap2BioEnrollmentResponse::default().
ctap2_bio_enrollment(request, timeout, send, recv) ==
    LET sent == <<SendOp(into_CborRequest(request), timeout)>>
        both == Append(sent, RecvOp(timeout))
    IN  IF ~send.ok THEN Ret(sent, Propagate(send), FALSE)
        ELSE IF ~recv.ok THEN Ret(both, Propagate(recv), FALSE)
        ELSE IF recv.status_code # "Ok"
             THEN Ret(both, Err("Ctap", recv.status_code), FALSE)
        ELSE IF recv.has_data THEN parse_cbor("Ctap2BioEnrollmentResponse", recv.data, both)
        ELSE Ret(both, Ok(Default("Ctap2BioEnrollmentResponse")), FALSE)

\* ctap2_credential_management: an absent body gives the default response.
ctap2_credential_management(request, timeout, send, recv) ==
    LET sent == <<SendOp(into_CborRequest(request), timeout)>>
        both == Append(sent, RecvOp(timeout))
    IN  IF ~send.ok THEN Ret(sent, Propagate(send), FALSE)
        ELSE IF ~recv.ok THEN Ret(both, Propagate(recv), FALSE)
        ELSE IF recv.status_code # "Ok"
             THEN Ret(both, Err("Ctap", recv.status_code), FALSE)
        ELSE IF recv.has_data THEN parse_cbor("Ctap2CredentialManagementResponse", recv.data, both)
        ELSE Ret(both, Ok(Default("Ctap2CredentialManagementResponse")), FALSE)

\* The request a caller builds for a method: its command code.
Requests(method) ==
    IF method = "make_credential" THEN {[command |-> AuthenticatorMakeCredential]}
    ELSE IF method = "get_assertion" THEN {[command |-> AuthenticatorGetAssertion]}
    ELSE IF method = "client_pin" THEN {[command |-> AuthenticatorClientPin]}
    ELSE IF method = "authenticator_config" THEN {[command |-> AuthenticatorConfig]}
    ELSE IF method = "bio_enrollment"
         THEN {[command |-> AuthenticatorBioEnrollment],
               [command |-> AuthenticatorBioEnrollmentPreview]}
    ELSE IF method = "credential_management"
         THEN {[command |-> AuthenticatorCredentialManagement],
               [command |-> AuthenticatorCredentialManagementPreview]}
    ELSE {}

NoRequest == [command |-> 0]

Call(method, request, timeout) ==
    [method |-> method, request |-> request, timeout |-> timeout]

IdleCall == Call("-", NoRequest, {})

\* The calls made on one channel.
MaxCalls == 2

\* The channel operations of one call as the channel saw them: a cbor_send
\* with its outcome, a cbor_recv as issued.
Wire(ops, send) ==
    [k \in 1..Len(ops) |->
        IF ops[k].op = "cbor_send"
        THEN IF send.ok THEN "cbor_send: Ok" ELSE "cbor_send: Err"
        ELSE "cbor_recv"]

Calls(wire) == Cardinality({k \in 1..Len(wire) : wire[k] # "cbor_recv"})
IdleRet == Ret(<<>>, Err("-", "-"), FALSE)

\* No call of supports_fido_2_1 on the response returned.
NotAsked == [asked |-> FALSE, answer |-> FALSE]

ProtoInit ==
    /\ p_pc = "idle"
    /\ p_call = IdleCall
    /\ p_send = SendErr("-")
    /\ p_recv = NotReceived
    /\ p_ret = IdleRet
    /\ p_wire = <<>>
    /\ p_fido_2_1 = NotAsked

\* What cbor_recv may give the method: it runs only if cbor_send succeeded.
RecvOutcomesAfter(send) == IF send.ok THEN RecvOutcomes ELSE {NotReceived}

\* One action per method: the call runs to its return, p_ret, with the
\* outcomes of its cbor_send and cbor_recv chosen by the channel.
GetInfo ==
    /\ p_pc = "idle"
    /\ Calls(p_wire) < MaxCalls
    /\ p_pc' = "returned"
    /\ \E send \in SendOutcomes :
          \E recv \in RecvOutcomesAfter(send) :
              /\ p_call' = Call("get_info", NoRequest, {})
              /\ p_send' = send
              /\ p_recv' = recv
              /\ p_ret' = ctap2_get_info(send, recv)
              /\ p_wire' = p_wire \o Wire(p_ret'.ops, send)
    /\ UNCHANGED p_fido_2_1
    /\ UNCHANGED protoOthers

MakeCredential ==
    /\ p_pc = "idle"
    /\ Calls(p_wire) < MaxCalls
    /\ p_pc' = "returned"
    /\ \E request \in Requests("make_credential"), timeout \in CallerTimeouts,
          send \in SendOutcomes :
          \E recv \in RecvOutcomesAfter(send) :
              /\ p_call' = Call("make_credential", request, {timeout})
              /\ p_send' = send
              /\ p_recv' = recv
              /\ p_ret' = ctap2_make_credential(request, timeout, send, recv)
              /\ p_wire' = p_wire \o Wire(p_ret'.ops, send)
    /\ UNCHANGED p_fido_2_1
    /\ UNCHANGED protoOthers

GetAssertion ==
    /\ p_pc = "idle"
    /\ Calls(p_wire) < MaxCalls
    /\ p_pc' = "returned"
    /\ \E request \in Requests("get_assertion"), timeout \in CallerTimeouts,
          send \in SendOutcomes :
          \E recv \in RecvOutcomesAfter(send) :
              /\ p_call' = Call("get_assertion", request, {timeout})
              /\ p_send' = send
              /\ p_recv' = recv
              /\ p_ret' = ctap2_get_assertion(request, timeout, send, recv)
              /\ p_wire' = p_wire \o Wire(p_ret'.ops, send)
    /\ UNCHANGED p_fido_2_1
    /\ UNCHANGED protoOthers

GetNextAssertion ==
    /\ p_pc = "idle"
    /\ Calls(p_wire) < MaxCalls
    /\ p_pc' = "returned"
    /\ \E timeout \in CallerTimeouts,
          send \in SendOutcomes :
          \E recv \in RecvOutcomesAfter(send) :
              /\ p_call' = Call("get_next_assertion", NoRequest, {timeout})
              /\ p_send' = send
              /\ p_recv' = recv
              /\ p_ret' = ctap2_get_next_assertion(timeout, send, recv)
              /\ p_wire' = p_wire \o Wire(p_ret'.ops, send)
    /\ UNCHANGED p_fido_2_1
    /\ UNCHANGED protoOthers

Selection ==
    /\ p_pc = "idle"
    /\ Calls(p_wire) < MaxCalls
    /\ p_pc' = "returned"
    /\ \E timeout \in CallerTimeouts,
          send \in SendOutcomes :
          \E recv \in RecvOutcomesAfter(send) :
              /\ p_call' = Call("selection", NoRequest, {timeout})
              /\ p_send' = send
              /\ p_recv' = recv
              /\ p_ret' = ctap2_selection(timeout, send, recv)
              /\ p_wire' = p_wire \o Wire(p_ret'.ops, send)
    /\ UNCHANGED p_fido_2_1
    /\ UNCHANGED protoOthers

ClientPin ==
    /\ p_pc = "idle"
    /\ Calls(p_wire) < MaxCalls
    /\ p_pc' = "returned"
    /\ \E request \in Requests("client_pin"), timeout \in CallerTimeouts,
          send \in SendOutcomes :
          \E recv \in RecvOutcomesAfter(send) :
              /\ p_call' = Call("client_pin", request, {timeout})
              /\ p_send' = send
              /\ p_recv' = recv
              /\ p_ret' = ctap2_client_pin(request, timeout, send, recv)
              /\ p_wire' = p_wire \o Wire(p_ret'.ops, send)
    /\ UNCHANGED p_fido_2_1
    /\ UNCHANGED protoOthers

AuthenticatorConfigCall ==
    /\ p_pc = "idle"
    /\ Calls(p_wire) < MaxCalls
    /\ p_pc' = "returned"
    /\ \E request \in Requests("authenticator_config"), timeout \in CallerTimeouts,
          send \in SendOutcomes :
          \E recv \in RecvOutcomesAfter(send) :
              /\ p_call' = Call("authenticator_config", request, {timeout})
              /\ p_send' = send
              /\ p_recv' = recv
              /\ p_ret' = ctap2_authenticator_config(request, timeout, send, recv)
              /\ p_wire' = p_wire \o Wire(p_ret'.ops, send)
    /\ UNCHANGED p_fido_2_1
    /\ UNCHANGED protoOthers

BioEnrollment ==
    /\ p_pc = "idle"
    /\ Calls(p_wire) < MaxCalls
    /\ p_pc' = "returned"
    /\ \E request \in Requests("bio_enrollment"), timeout \in CallerTimeouts,
          send \in SendOutcomes :
          \E recv \in RecvOutcomesAfter(send) :
              /\ p_call' = Call("bio_enrollment", request, {timeout})
              /\ p_send' = send
              /\ p_recv' = recv
              /\ p_ret' = ctap2_bio_enrollment(request, timeout, send, recv)
              /\ p_wire' = p_wire \o Wire(p_ret'.ops, send)
    /\ UNCHANGED p_fido_2_1
    /\ UNCHANGED protoOthers

CredentialManagement ==
    /\ p_pc = "idle"
    /\ Calls(p_wire) < MaxCalls
    /\ p_pc' = "returned"
    /\ \E request \in Requests("credential_management"), timeout \in CallerTimeouts,
          send \in SendOutcomes :
          \E recv \in RecvOutcomesAfter(send) :
              /\ p_call' = Call("credential_management", request, {timeout})
              /\ p_send' = send
              /\ p_recv' = recv
              /\ p_ret' = ctap2_credential_management(request, timeout, send, recv)
              /\ p_wire' = p_wire \o Wire(p_ret'.ops, send)
    /\ UNCHANGED p_fido_2_1
    /\ UNCHANGED protoOthers

\* The caller takes the result; the channel is free for the next call.
TakeResult ==
    /\ p_pc = "returned"
    /\ p_pc' = "idle"
    /\ p_call' = IdleCall
    /\ p_send' = SendErr("-")
    /\ p_recv' = NotReceived
    /\ p_ret' = IdleRet
    /\ p_fido_2_1' = NotAsked
    /\ UNCHANGED p_wire
    /\ UNCHANGED protoOthers

\* The caller asks the response ctap2_get_info returned: supports_fido_2_1().
SupportsFido21 ==
    /\ p_pc = "returned"
    /\ p_call.method = "get_info"
    /\ p_ret.result.ok
    /\ ~p_fido_2_1.asked
    /\ p_fido_2_1' = [asked |-> TRUE, answer |-> supports_fido_2_1(p_ret.result.value)]
    /\ UNCHANGED <<p_pc, p_call, p_send, p_recv, p_ret, p_wire>>
    /\ UNCHANGED protoOthers

ProtoNext ==
    \/ SupportsFido21
    \/ GetInfo
    \/ MakeCredential
    \/ GetAssertion
    \/ GetNextAssertion
    \/ Selection
    \/ ClientPin
    \/ AuthenticatorConfigCall
    \/ BioEnrollment
    \/ CredentialManagement
    \/ TakeResult

----------------------------------------------------------------------------
(* The transport channel: CableKnownDevice::channel() and the cbor_send /   *)
(* cbor_recv contract of section 4.1.                                      *)

\* mpsc::channel(16): the capacity of the request and response queues.
CborQueueCapacity == 16

\* Requests a caller sends on one channel before it is dropped.
MaxRequests == 3

Commands ==
    {AuthenticatorMakeCredential, AuthenticatorGetAssertion, AuthenticatorGetInfo,
     AuthenticatorClientPin, AuthenticatorGetNextAssertion, AuthenticatorSelection,
     AuthenticatorConfig}

NoChannelOp == [op |-> "-", outstanding |-> FALSE, result |-> <<"-", "-">>]
ChannelOp(op, outstanding, result) ==
    [op |-> op, outstanding |-> outstanding, result |-> result]

ChanInit ==
    /\ c_open = FALSE
    /\ cbor_tx = <<>>
    /\ cbor_rx = <<>>
    /\ c_outstanding = FALSE
    /\ c_sent = 0
    /\ c_answered = 0
    /\ c_last = NoChannelOp

\* A slip: cbor_send does not look at the outstanding request.
cbor_send_unchecked(outstanding, queued) ==
    IF queued < CborQueueCapacity THEN <<"Ok", "-">> ELSE <<"Err", "Timeout">>

\* cbor_send: InvalidState while a request is outstanding; else the request
\* is queued for the I/O task, or the send times out on a full queue.
cbor_send(outstanding, queued) ==
    IF outstanding THEN <<"Err", "InvalidState">>
    ELSE IF queued < CborQueueCapacity THEN <<"Ok", "-">>
    ELSE <<"Err", "Timeout">>

\* A slip: cbor_recv waits for a response whether or not a request was sent.
cbor_recv_unchecked(outstanding, queued) ==
    IF queued > 0 THEN <<"Ok", "-">> ELSE <<"Err", "Timeout">>

\* cbor_recv: InvalidState with no request outstanding; else the next
\* response, or a timeout while the I/O task has none yet.
cbor_recv(outstanding, queued) ==
    IF ~outstanding THEN <<"Err", "InvalidState">>
    ELSE IF queued > 0 THEN <<"Ok", "-">>
    ELSE <<"Err", "Timeout">>

\* channel(): empty request and response queues, nothing outstanding.
OpenChannel ==
    /\ ~c_open
    /\ c_open' = TRUE
    /\ cbor_tx' = <<>>
    /\ cbor_rx' = <<>>
    /\ c_outstanding' = FALSE
    /\ c_sent' = 0
    /\ c_answered' = 0
    /\ c_last' = NoChannelOp
    /\ UNCHANGED chanOthers

CborSend(command) ==
    /\ c_open
    /\ c_sent < MaxRequests
    /\ LET r == cbor_send(c_outstanding, Len(cbor_tx)) IN
        /\ c_last' = ChannelOp("cbor_send", c_outstanding, r)
        /\ IF r[1] = "Ok"
           THEN /\ cbor_tx' = Append(cbor_tx, command)
                /\ c_outstanding' = TRUE
                /\ c_sent' = c_sent + 1
           ELSE UNCHANGED <<cbor_tx, c_outstanding, c_sent>>
    /\ UNCHANGED <<c_open, cbor_rx, c_answered>>
    /\ UNCHANGED chanOthers

\* The I/O task: takes the next request to the authenticator and queues the
\* authenticator's response to it.
TunnelTask(status) ==
    /\ c_open
    /\ cbor_tx # <<>>
    /\ Len(cbor_rx) < CborQueueCapacity
    /\ cbor_rx' = Append(cbor_rx, [status_code |-> status, command |-> Head(cbor_tx)])
    /\ cbor_tx' = Tail(cbor_tx)
    /\ UNCHANGED <<c_open, c_outstanding, c_sent, c_answered, c_last>>
    /\ UNCHANGED chanOthers

CborRecv ==
    /\ c_open
    /\ LET r == cbor_recv(c_outstanding, Len(cbor_rx)) IN
        /\ c_last' = ChannelOp("cbor_recv", c_outstanding, r)
        /\ IF r[1] = "Ok"
           THEN /\ cbor_rx' = Tail(cbor_rx)
                /\ c_outstanding' = FALSE
                /\ c_answered' = c_answered + 1
           ELSE UNCHANGED <<cbor_rx, c_outstanding, c_answered>>
    /\ UNCHANGED <<c_open, cbor_tx, c_sent>>
    /\ UNCHANGED chanOthers

\* The channel is dropped; a later channel() starts afresh.
DropChannel ==
    /\ c_open
    /\ c_open' = FALSE
    /\ cbor_tx' = <<>>
    /\ cbor_rx' = <<>>
    /\ c_outstanding' = FALSE
    /\ c_sent' = 0
    /\ c_answered' = 0
    /\ c_last' = NoChannelOp
    /\ UNCHANGED chanOthers

ChanNext ==
    \/ OpenChannel
    \/ \E command \in Commands : CborSend(command)
    \/ \E status \in CtapError : TunnelTask(status)
    \/ CborRecv
    \/ DropChannel

----------------------------------------------------------------------------
(* The authenticator configuration example: the operations it offers for   *)
(* a GetInfo result, and its loop around the chosen operation.             *)

ConfigOptionNames == {"authnrCfg", "alwaysUv", "setMinPINLength", "ep"}

NoConfigOptionMap == [n \in ConfigOptionNames |-> "absent"]

\* min_pin_length: Option<u32>, None or Some(4).
MinPinLengths == {{}, {4}}

\* The GetInfo results the example can meet: the option map, force_pin_change
\* (Option<bool>) and min_pin_length.
ConfigInfo ==
    {[has_options |-> TRUE, options |-> o, force_pin_change |-> f, min_pin_length |-> l] :
        o \in [ConfigOptionNames -> OptionValues], f \in OptionValues, l \in MinPinLengths}
    \cup
    {[has_options |-> FALSE, options |-> NoConfigOptionMap, force_pin_change |-> f,
      min_pin_length |-> l] : f \in OptionValues, l \in MinPinLengths}

\* enum Operation; length is the payload of SetMinPinLength.
Operation(op) == [op |-> op, length |-> {}]
SetMinPinLength(length) == [op |-> "SetMinPinLength", length |-> length]

\* A slip: alwaysUv has to be true, not merely present.
get_supported_options_always_uv_true(i) ==
    IF ~i.has_options THEN <<>>
    ELSE (IF i.options["authnrCfg"] = "true" /\ i.options["alwaysUv"] = "true"
          THEN <<Operation("ToggleAlwaysUv")>> ELSE <<>>)
         \o (IF i.options["authnrCfg"] = "true" /\ i.options["setMinPINLength"] # "absent"
             THEN << IF i.force_pin_change = "true"
                     THEN Operation("DisableForceChangePin")
                     ELSE Operation("EnableForceChangePin"),
                     SetMinPinLength(i.min_pin_length),
                     Operation("SetMinPinLengthRpids") >>
             ELSE <<>>)
         \o (IF i.options["ep"] # "absent"
             THEN <<Operation("EnableEnterpriseAttestation")>> ELSE <<>>)

\* get_supported_options: the operations pushed, in order.
get_supported_options(i) ==
    IF ~i.has_options THEN <<>>
    ELSE (IF i.options["authnrCfg"] = "true" /\ i.options["alwaysUv"] # "absent"
          THEN <<Operation("ToggleAlwaysUv")>> ELSE <<>>)
         \o (IF i.options["authnrCfg"] = "true" /\ i.options["setMinPINLength"] # "absent"
             THEN << IF i.force_pin_change = "true"
                     THEN Operation("DisableForceChangePin")
                     ELSE Operation("EnableForceChangePin"),
                     SetMinPinLength(i.min_pin_length),
                     Operation("SetMinPinLengthRpids") >>
             ELSE <<>>)
         \o (IF i.options["ep"] # "absent"
             THEN <<Operation("EnableEnterpriseAttestation")>> ELSE <<>>)

\* The CTAP errors a management operation may end with.
ManagementErrors == {"PinInvalid", "UvInvalid", "PinBlocked", "UvBlocked", "NotAllowed"}

\* A slip: every CTAP error counts as a retryable user error.
is_retryable_user_error_any(e) == e \in ManagementErrors

\* CtapError::is_retryable_user_error.
is_retryable_user_error(e) == e \in {"PinInvalid", "UvInvalid"}

\* What action.await gives: Ok, a CTAP error, or a transport / platform error.
OperationResults ==
    {Ok(Unit)} \cup {Err("Ctap", e) : e \in ManagementErrors}
        \cup {Err("Transport", "Timeout"), Err("Platform", "InvalidDeviceResponse")}

\* The most attempts of one operation that are followed.
MaxAttempts == 3

NoOutcome == Err("-", "-")

MgmtStart(i) ==
    /\ m_info = i
    /\ m_pc = "info"
    /\ m_options = <<>>
    /\ m_idx = 0
    /\ m_issued = <<>>
    /\ m_results = <<>>
    /\ m_outcome = NoOutcome

MgmtInit == \E i \in ConfigInfo : MgmtStart(i)

\* The example is not running.
MgmtIdle ==
    MgmtStart([has_options |-> FALSE, options |-> NoConfigOptionMap,
               force_pin_change |-> "absent", min_pin_length |-> {}])

\* let options = get_supported_options(&info), and the menu is printed.
GetSupportedOptions ==
    /\ m_pc = "info"
    /\ m_pc' = "menu"
    /\ m_options' = get_supported_options(m_info)
    /\ UNCHANGED <<m_info, m_idx, m_issued, m_results, m_outcome>>
    /\ UNCHANGED mgmtOthers

\* The user's choice: an index into the menu (here counted from 1).
ChooseOperation ==
    /\ m_pc = "menu"
    /\ \E idx \in 1..Len(m_options) :
           /\ m_idx' = idx
           /\ m_pc' = "loop"
    /\ UNCHANGED <<m_info, m_options, m_issued, m_results, m_outcome>>
    /\ UNCHANGED mgmtOthers

\* One turn of the loop: the operation is issued and awaited; Ok and every
\* error but a retryable CTAP error break out of the loop.
Attempt ==
    /\ m_pc = "loop"
    /\ Len(m_issued) < MaxAttempts
    /\ \E result \in OperationResults :
           /\ m_issued' = Append(m_issued, m_options[m_idx])
           /\ m_results' = Append(m_results, result)
           /\ IF result.ok
              THEN m_pc' = "done" /\ m_outcome' = result
              ELSE IF result.err[1] = "Ctap" /\ is_retryable_user_error(result.err[2])
              THEN m_pc' = "loop" /\ m_outcome' = m_outcome
              ELSE m_pc' = "done" /\ m_outcome' = result
    /\ UNCHANGED <<m_info, m_options, m_idx>>
    /\ UNCHANGED mgmtOthers

MgmtNext ==
    \/ GetSupportedOptions
    \/ ChooseOperation
    \/ Attempt

----------------------------------------------------------------------------
(* caBLE known devices: the device id and the record built from a linking  *)
(* record, and the three stages of a connection attempt.                   *)

\* [u8; 8], [u8; 32] and [u8; 65] of CableKnownDeviceInfo.
LinkIdLen == 8
LinkSecretLen == 32
PublicKeyLen == 65

\* A byte string: first, then second, then fill up to the length.
Filled(first, second, fill, len) ==
    [i \in 1..len |-> IF i = 1 THEN first ELSE IF i = 2 THEN second ELSE fill]

\* The authenticator public keys of the linking records: keys of 65 bytes
\* that differ in a nibble, a key of 64 bytes and a key of 66 bytes.
LinkingPublicKeys ==
    { Filled(4, 171, 0, PublicKeyLen), Filled(1, 16, 0, PublicKeyLen),
      Filled(17, 0, 0, PublicKeyLen), Filled(4, 171, 255, PublicKeyLen),
      Filled(4, 171, 0, PublicKeyLen - 1), Filled(4, 171, 0, PublicKeyLen + 1) }

LinkingLinkIds == {Filled(17, 34, 51, LinkIdLen), Filled(17, 34, 51, LinkIdLen - 1)}

LinkingSecrets == {Filled(9, 9, 9, LinkSecretLen), Filled(9, 9, 9, LinkSecretLen + 1)}

\* CableLinkingInfo, as far as known_devices.rs reads it.
LinkingInfo(link_id, link_secret, public_key) ==
    [contact_id |-> <<7>>, link_id |-> link_id, link_secret |-> link_secret,
     authenticator_public_key |-> public_key, authenticator_name |-> "phone"]

\* The linking records followed: every key with a well-sized link id and
\* secret, and one record each with a link id or a secret of a wrong size.
CableLinkingInfo ==
    {LinkingInfo(Filled(17, 34, 51, LinkIdLen), Filled(9, 9, 9, LinkSecretLen), k) :
        k \in LinkingPublicKeys}
    \cup
    {LinkingInfo(i, s, Filled(4, 171, 0, PublicKeyLen)) :
        i \in LinkingLinkIds, s \in LinkingSecrets}

HexDigits == <<"0", "1", "2", "3", "4", "5", "6", "7", "8", "9", "a", "b", "c", "d", "e", "f">>

\* A slip: a byte below 16 is written as one digit.
hex_encode_unpadded(bytes) ==
    Concat([i \in 1..Len(bytes) |->
               IF bytes[i] < 16 THEN <<HexDigits[bytes[i] + 1]>>
               ELSE <<HexDigits[(bytes[i] \div 16) + 1], HexDigits[(bytes[i] % 16) + 1]>>])

\* hex::encode: two lower-case digits per byte, the high nibble first.
hex_encode(bytes) ==
    Concat([i \in 1..Len(bytes) |->
               <<HexDigits[(bytes[i] \div 16) + 1], HexDigits[(bytes[i] % 16) + 1]>>])

\* impl From<&CableLinkingInfo> for CableKnownDeviceId.
CableKnownDeviceId(linking_info) == hex_encode(linking_info.authenticator_public_key)

NoDeviceInfo ==
    [ok |-> FALSE, err |-> <<"-", "-">>, contact_id |-> <<>>, link_id |-> <<>>,
     link_secret |-> <<>>, public_key |-> <<>>, name |-> "-", tunnel_domain |-> "-"]

\* A slip: the link secret is taken whatever its length.
CableKnownDeviceInfo_any_secret(tunnel_domain, linking_info) ==
    IF \/ Len(linking_info.link_id) # LinkIdLen
       \/ Len(linking_info.authenticator_public_key) # PublicKeyLen
    THEN [NoDeviceInfo EXCEPT !.err = <<"Transport", "InvalidFraming">>]
    ELSE [ok |-> TRUE, err |-> <<"-", "-">>,
          contact_id |-> linking_info.contact_id,
          link_id |-> linking_info.link_id,
          link_secret |-> linking_info.link_secret,
          public_key |-> linking_info.authenticator_public_key,
          name |-> linking_info.authenticator_name,
          tunnel_domain |-> tunnel_domain]

\* CableKnownDeviceInfo::new: the three fixed-size fields are converted with
\* try_into, each failure being Transport(InvalidFraming).
CableKnownDeviceInfo(tunnel_domain, linking_info) ==
    IF \/ Len(linking_info.link_id) # LinkIdLen
       \/ Len(linking_info.link_secret) # LinkSecretLen
       \/ Len(linking_info.authenticator_public_key) # PublicKeyLen
    THEN [NoDeviceInfo EXCEPT !.err = <<"Transport", "InvalidFraming">>]
    ELSE [ok |-> TRUE, err |-> <<"-", "-">>,
          contact_id |-> linking_info.contact_id,
          link_id |-> linking_info.link_id,
          link_secret |-> linking_info.link_secret,
          public_key |-> linking_info.authenticator_public_key,
          name |-> linking_info.authenticator_name,
          tunnel_domain |-> tunnel_domain]

\* The linking records that are followed at once.
MaxLinked == 2

\* A slip: the table has grown to 25 entries.
KNOWN_TUNNEL_DOMAINS_grown == [i \in 1..25 |-> "cable.example"]

\* tunnel::KNOWN_TUNNEL_DOMAINS, the well-known tunnel server domains.
KNOWN_TUNNEL_DOMAINS == <<"cable.ua5v.com", "cable.auth.com">>

\* A known domain is encoded as its index in the table, in one byte.
decode_tunnel_domain(encoded) == KNOWN_TUNNEL_DOMAINS[encoded + 1]

EncodedTunnelDomains == {e \in 0..255 : e < Len(KNOWN_TUNNEL_DOMAINS)}

TunnelDomains == {decode_tunnel_domain(e) : e \in EncodedTunnelDomains}

\* The stages of CableKnownDevice::connection, in the order it awaits them.
Stages == <<"connection_stage", "proximity_check_stage", "handshake_stage">>

StageOk(stage) == <<"Ok", stage>>
StageErr(e) == <<"Err", e>>

\* What a stage may return: its output or a TransportError.
StageOutcomes(stage) ==
    {StageOk(stage)} \cup {StageErr(e) : e \in {"Timeout", "ConnectionFailed"}}

\* A slip: the result of a stage is not looked at.
returns_early_never(outcome) == FALSE

\* The ? after each stage's await: an Err is returned at once.
returns_early(outcome) == outcome[1] = "Err"

NoStageResult == <<"-", "-">>

\* ConnectionState, the values of the channel's watch; "-" with no channel.
ConnectionState ==
    {"Connecting", "Connected", "Authenticating", "Ready", "Terminated", "Failed"}

\* The state a stage may publish through the UX sender while it runs.
StageState(stage) ==
    CASE stage = "connection_stage" -> "Connected"
      [] stage = "proximity_check_stage" -> "Authenticating"
      [] stage = "handshake_stage" -> "Ready"

\* What a stage hands back on Ok: its output, with the nonce it used.
StageOutput(input) == [stage |-> input.stage, client_nonce |-> input.client_nonce]

\* A slip: the proximity check is given a nonce of its own.
StageInput_fresh_nonce(stage, known_device, client_nonce, outputs) ==
    IF stage = Stages[1]
    THEN [stage |-> stage, known_device |-> known_device,
          client_nonce |-> client_nonce, outputs |-> <<>>]
    ELSE IF stage = Stages[2]
    THEN [stage |-> stage, known_device |-> known_device,
          client_nonce |-> CHOOSE n \in ClientNonces : n # client_nonce,
          outputs |-> <<>>]
    ELSE [stage |-> stage, known_device |-> known_device,
          client_nonce |-> <<>>, outputs |-> <<outputs[1], outputs[2]>>]

\* The input connection() builds for a stage: ConnectionInput and
\* ProximityCheckInput from the known device and &client_nonce, HandshakeInput
\* from the known device, connection_output and proximity_output.
StageInput(stage, known_device, client_nonce, outputs) ==
    IF stage = Stages[3]
    THEN [stage |-> stage, known_device |-> known_device,
          client_nonce |-> <<>>, outputs |-> <<outputs[1], outputs[2]>>]
    ELSE [stage |-> stage, known_device |-> known_device,
          client_nonce |-> client_nonce, outputs |-> <<>>]

\* A slip: the task goes on to the tunnel whatever connection() returned.
task_continues_always(result) == TRUE

\* The task's match on Self::connection(..).await: Ok goes on to the tunnel,
\* Err is handed to send_error and the task returns.
task_continues(result) == result[1] = "Ok"

NoChannel == <<"-", "-">>

CableInit ==
    /\ d_linking = <<>>
    /\ d_domains = <<>>
    /\ d_ids = <<>>
    /\ d_infos = <<>>
    /\ k_pc = "idle"
    /\ k_device = 0
    /\ k_started = <<>>
    /\ k_outcomes = <<>>
    /\ k_result = NoStageResult
    /\ k_nonces = <<>>
    /\ k_inputs = <<>>
    /\ k_outputs = <<>>
    /\ k_channel = NoChannel
    /\ k_state = "-"
    /\ k_reported = <<>>
    /\ k_tunnel = "not started"

\* A linking record arrives: its device id is derived and
\* CableKnownDeviceInfo::new is called on it.
Link ==
    /\ Len(d_linking) < MaxLinked
    /\ k_pc = "idle"
    /\ \E linking_info \in CableLinkingInfo, tunnel_domain \in TunnelDomains :
           /\ d_linking' = Append(d_linking, linking_info)
           /\ d_domains' = Append(d_domains, tunnel_domain)
           /\ d_ids' = Append(d_ids, CableKnownDeviceId(linking_info))
           /\ d_infos' = Append(d_infos, CableKnownDeviceInfo(tunnel_domain, linking_info))
    /\ UNCHANGED <<k_pc, k_device, k_started, k_outcomes, k_result>>
    /\ UNCHANGED <<k_nonces, k_inputs, k_outputs, k_channel, k_state, k_reported, k_tunnel>>
    /\ UNCHANGED cableOthers

\* channel() on a known device: the watch starts at Connecting, the task is
\* spawned and Ok(CableChannel) is returned.
Channel ==
    /\ k_pc = "idle"
    /\ \E dev \in 1..Len(d_infos) :
           /\ d_infos[dev].ok
           /\ k_device' = dev
    /\ k_pc' = "spawned"
    /\ k_channel' = <<"Ok", "CableChannel">>
    /\ k_state' = "Connecting"
    /\ UNCHANGED <<d_linking, d_domains, d_ids, d_infos>>
    /\ UNCHANGED <<k_started, k_outcomes, k_result, k_nonces, k_inputs, k_outputs,
                   k_reported, k_tunnel>>
    /\ UNCHANGED cableOthers

\* The task calls connection(): the client nonce is drawn, the input of
\* stage 1 is built and stage 1 is awaited.
StartConnection ==
    /\ k_pc = "spawned"
    /\ \E client_nonce \in ClientNonces :
           /\ k_nonces' = Append(k_nonces, client_nonce)
           /\ k_inputs' = <<StageInput(Stages[1], k_device, client_nonce, k_outputs)>>
    /\ k_pc' = Stages[1]
    /\ k_started' = <<Stages[1]>>
    /\ k_outcomes' = <<>>
    /\ k_result' = NoStageResult
    /\ UNCHANGED <<d_linking, d_domains, d_ids, d_infos, k_device>>
    /\ UNCHANGED <<k_outputs, k_channel, k_state, k_reported, k_tunnel>>
    /\ UNCHANGED cableOthers

\* connection_stage(..).await? and, on Ok, the call of stage 2.
ConnectionStage ==
    /\ k_pc = Stages[1]
    /\ \E outcome \in StageOutcomes(Stages[1]) :
           /\ k_outcomes' = Append(k_outcomes, outcome)
           /\ IF returns_early(outcome)
              THEN /\ k_pc' = "returned"
                   /\ k_result' = outcome
                   /\ k_started' = k_started
                   /\ UNCHANGED <<k_outputs, k_inputs>>
              ELSE /\ k_pc' = Stages[2]
                   /\ k_result' = k_result
                   /\ k_started' = Append(k_started, Stages[2])
                   /\ k_outputs' = Append(k_outputs, StageOutput(k_inputs[Len(k_inputs)]))
                   /\ k_inputs' = Append(k_inputs,
                          StageInput(Stages[2], k_device, k_nonces[Len(k_nonces)],
                                     k_outputs'))
    /\ k_state' \in {k_state, StageState(Stages[1])}
    /\ UNCHANGED <<d_linking, d_domains, d_ids, d_infos, k_device>>
    /\ UNCHANGED <<k_nonces, k_channel, k_reported, k_tunnel>>
    /\ UNCHANGED cableOthers

\* proximity_check_stage(..).await? and, on Ok, the call of stage 3.
ProximityCheckStage ==
    /\ k_pc = Stages[2]
    /\ \E outcome \in StageOutcomes(Stages[2]) :
           /\ k_outcomes' = Append(k_outcomes, outcome)
           /\ IF returns_early(outcome)
              THEN /\ k_pc' = "returned"
                   /\ k_result' = outcome
                   /\ k_started' = k_started
                   /\ UNCHANGED <<k_outputs, k_inputs>>
              ELSE /\ k_pc' = Stages[3]
                   /\ k_result' = k_result
                   /\ k_started' = Append(k_started, Stages[3])
                   /\ k_outputs' = Append(k_outputs, StageOutput(k_inputs[Len(k_inputs)]))
                   /\ k_inputs' = Append(k_inputs,
                          StageInput(Stages[3], k_device, k_nonces[Len(k_nonces)],
                                     k_outputs'))
    /\ k_state' \in {k_state, StageState(Stages[2])}
    /\ UNCHANGED <<d_linking, d_domains, d_ids, d_infos, k_device>>
    /\ UNCHANGED <<k_nonces, k_channel, k_reported, k_tunnel>>
    /\ UNCHANGED cableOthers

\* handshake_stage(..).await? and Ok(handshake_output).
HandshakeStage ==
    /\ k_pc = Stages[3]
    /\ \E outcome \in StageOutcomes(Stages[3]) :
           /\ k_outcomes' = Append(k_outcomes, outcome)
           /\ k_pc' = "returned"
           /\ k_result' = IF returns_early(outcome) THEN outcome ELSE StageOk(Stages[3])
           /\ k_outputs' = IF returns_early(outcome) THEN k_outputs
                           ELSE Append(k_outputs, StageOutput(k_inputs[Len(k_inputs)]))
    /\ k_state' \in {k_state, StageState(Stages[3])}
    /\ UNCHANGED <<d_linking, d_domains, d_ids, d_infos, k_device, k_started>>
    /\ UNCHANGED <<k_nonces, k_inputs, k_channel, k_reported, k_tunnel>>
    /\ UNCHANGED cableOthers

\* The task's match on what connection() returned: on Err,
\* ux_sender.send_error(e) and return; on Ok the tunnel is started.
TaskMatch ==
    /\ k_pc = "returned"
    /\ IF task_continues(k_result)
       THEN /\ k_pc' = "tunnel"
            /\ k_tunnel' = "running"
            /\ UNCHANGED <<k_reported, k_state>>
       ELSE /\ k_pc' = "done"
            /\ k_reported' = Append(k_reported, k_result)
            /\ k_state' \in {k_state, "Failed"}
            /\ UNCHANGED k_tunnel
    /\ UNCHANGED <<d_linking, d_domains, d_ids, d_infos, k_device, k_started,
                   k_outcomes, k_result>>
    /\ UNCHANGED <<k_nonces, k_inputs, k_outputs, k_channel>>
    /\ UNCHANGED cableOthers

\* tunnel::connection(tunnel_input).await returns: the tunnel has ended.
TunnelConnection ==
    /\ k_pc = "tunnel"
    /\ k_pc' = "terminating"
    /\ k_tunnel' = "ended"
    /\ UNCHANGED <<d_linking, d_domains, d_ids, d_infos, k_device, k_started,
                   k_outcomes, k_result>>
    /\ UNCHANGED <<k_nonces, k_inputs, k_outputs, k_channel, k_state, k_reported>>
    /\ UNCHANGED cableOthers

\* ux_sender.set_connection_state(ConnectionState::Terminated).await.
SetTerminated ==
    /\ k_pc = "terminating"
    /\ k_pc' = "done"
    /\ k_state' = "Terminated"
    /\ UNCHANGED <<d_linking, d_domains, d_ids, d_infos, k_device, k_started,
                   k_outcomes, k_result>>
    /\ UNCHANGED <<k_nonces, k_inputs, k_outputs, k_channel, k_reported, k_tunnel>>
    /\ UNCHANGED cableOthers

\* The task has ended and the channel is dropped; channel() may be called
\* again.
AttemptOver ==
    /\ k_pc = "done"
    /\ k_pc' = "idle"
    /\ k_device' = 0
    /\ k_started' = <<>>
    /\ k_outcomes' = <<>>
    /\ k_result' = NoStageResult
    /\ k_nonces' = <<>>
    /\ k_inputs' = <<>>
    /\ k_outputs' = <<>>
    /\ k_channel' = NoChannel
    /\ k_state' = "-"
    /\ k_reported' = <<>>
    /\ k_tunnel' = "not started"
    /\ UNCHANGED <<d_linking, d_domains, d_ids, d_infos>>
    /\ UNCHANGED cableOthers

CableNext ==
    \/ Link

\* One known device is in hand: a linking record was followed and its record
\* built, through either tunnel domain.
KnownDeviceInit ==
    /\ \E linking_info \in CableLinkingInfo, tunnel_domain \in TunnelDomains :
           /\ CableKnownDeviceInfo(tunnel_domain, linking_info).ok
           /\ d_linking = <<linking_info>>
           /\ d_domains = <<tunnel_domain>>
           /\ d_ids = <<CableKnownDeviceId(linking_info)>>
           /\ d_infos = <<CableKnownDeviceInfo(tunnel_domain, linking_info)>>
    /\ k_pc = "idle"
    /\ k_device = 0
    /\ k_started = <<>>
    /\ k_outcomes = <<>>
    /\ k_result = NoStageResult
    /\ k_nonces = <<>>
    /\ k_inputs = <<>>
    /\ k_outputs = <<>>
    /\ k_channel = NoChannel
    /\ k_state = "-"
    /\ k_reported = <<>>
    /\ k_tunnel = "not started"

KnownDeviceNext ==
    \/ Channel
    \/ StartConnection
    \/ ConnectionStage
    \/ ProximityCheckStage
    \/ HandshakeStage
    \/ TaskMatch
    \/ TunnelConnection
    \/ SetTerminated
    \/ AttemptOver

----------------------------------------------------------------------------
(* EphemeralDeviceInfoStore: a HashMap behind an Arc<Mutex<..>>, shared by  *)
(* the clones of the store and called from several tasks.                  *)

Tasks == {"t1", "t2"}

DeviceIds == {"04ab", "0110"}

DeviceInfos == {"d1", "d2"}

NoTask == "-"

\* A call of the store: put_known_device, delete_known_device or list_all.
StoreCall(op, id, device) == [op |-> op, id |-> id, device |-> device]

NoStoreCall == StoreCall("-", "-", "-")

StoreCalls ==
    {StoreCall("put_known_device", id, d) : id \in DeviceIds, d \in DeviceInfos}
        \cup {StoreCall("delete_known_device", id, "-") : id \in DeviceIds}
        \cup {StoreCall("list_all", "-", "-")}

\* The calls that are followed in one run.
MaxStoreCalls == 3

\* A slip: insert keeps the record that is already there.
insert_keeps_old(map, id, device) ==
    [k \in DOMAIN map \cup {id} |-> IF k \in DOMAIN map THEN map[k] ELSE device]

\* HashMap::insert.
insert(map, id, device) ==
    [k \in DOMAIN map \cup {id} |-> IF k = id THEN device ELSE map[k]]

\* HashMap::remove.
remove(map, id) == [k \in DOMAIN map \ {id} |-> map[k]]

\* known_devices.iter().map(clone).collect(): the (id, info) pairs.
collect(map) == {<<k, map[k]>> : k \in DOMAIN map}

\* A slip: the lock is handed out whoever holds it.
lock_free_always(holder) == TRUE

\* Mutex::lock().await resolves only while nobody holds the mutex.
lock_free(holder) == holder = NoTask

NoSnapshot == [taken |-> FALSE, pairs |-> {}, during_write |-> FALSE, after |-> 0]

StoreInit ==
    /\ known_devices = [k \in {} |-> "d1"]
    /\ s_lock = NoTask
    /\ s_writing = NoTask
    /\ s_pc = [t \in Tasks |-> "idle"]
    /\ s_call = [t \in Tasks |-> NoStoreCall]
    /\ s_calls = 0
    /\ s_log = <<>>
    /\ s_snapshot = NoSnapshot

\* A task calls the store (on any clone of it) and reaches lock().await.
StoreCallStart(t) ==
    /\ s_pc[t] = "idle"
    /\ s_calls < MaxStoreCalls
    /\ \E call \in StoreCalls : s_call' = [s_call EXCEPT ![t] = call]
    /\ s_pc' = [s_pc EXCEPT ![t] = "lock"]
    /\ s_calls' = s_calls + 1
    /\ UNCHANGED <<known_devices, s_lock, s_writing, s_log, s_snapshot>>
    /\ UNCHANGED storeOthers

\* self.known_devices.lock().await resolves: the task holds the guard.
Lock(t) ==
    /\ s_pc[t] = "lock"
    /\ lock_free(s_lock)
    /\ s_lock' = t
    /\ s_pc' = [s_pc EXCEPT ![t] = "locked"]
    /\ UNCHANGED <<known_devices, s_writing, s_call, s_calls, s_log, s_snapshot>>
    /\ UNCHANGED storeOthers

\* insert / remove starts to rewrite the table.
BeginWrite(t) ==
    /\ s_pc[t] = "locked"
    /\ s_call[t].op \in {"put_known_device", "delete_known_device"}
    /\ s_writing' = t
    /\ s_pc' = [s_pc EXCEPT ![t] = "writing"]
    /\ UNCHANGED <<known_devices, s_lock, s_call, s_calls, s_log, s_snapshot>>
    /\ UNCHANGED storeOthers

\* known_devices.insert(device_id.clone(), device.clone()) is done and the
\* guard is dropped.
PutKnownDevice(t) ==
    /\ s_pc[t] = "writing"
    /\ s_call[t].op = "put_known_device"
    /\ known_devices' = insert(known_devices, s_call[t].id, s_call[t].device)
    /\ s_log' = Append(s_log, s_call[t])
    /\ s_writing' = IF s_writing = t THEN NoTask ELSE s_writing
    /\ s_lock' = IF s_lock = t THEN NoTask ELSE s_lock
    /\ s_pc' = [s_pc EXCEPT ![t] = "idle"]
    /\ UNCHANGED <<s_call, s_calls, s_snapshot>>
    /\ UNCHANGED storeOthers

\* known_devices.remove(device_id) is done and the guard is dropped.
DeleteKnownDevice(t) ==
    /\ s_pc[t] = "writing"
    /\ s_call[t].op = "delete_known_device"
    /\ known_devices' = remove(known_devices, s_call[t].id)
    /\ s_log' = Append(s_log, s_call[t])
    /\ s_writing' = IF s_writing = t THEN NoTask ELSE s_writing
    /\ s_lock' = IF s_lock = t THEN NoTask ELSE s_lock
    /\ s_pc' = [s_pc EXCEPT ![t] = "idle"]
    /\ UNCHANGED <<s_call, s_calls, s_snapshot>>
    /\ UNCHANGED storeOthers

\* list_all: the pairs are collected under the guard, which is then dropped.
ListAll(t) ==
    /\ s_pc[t] = "locked"
    /\ s_call[t].op = "list_all"
    /\ s_snapshot' = [taken |-> TRUE, pairs |-> collect(known_devices),
                      during_write |-> s_writing # NoTask, after |-> Len(s_log)]
    /\ s_log' = Append(s_log, s_call[t])
    /\ s_lock' = IF s_lock = t THEN NoTask ELSE s_lock
    /\ s_pc' = [s_pc EXCEPT ![t] = "idle"]
    /\ UNCHANGED <<known_devices, s_writing, s_call, s_calls>>
    /\ UNCHANGED storeOthers

StoreNext ==
    \E t \in Tasks :
        \/ StoreCallStart(t)
        \/ Lock(t)
        \/ BeginWrite(t)
        \/ PutKnownDevice(t)
        \/ DeleteKnownDevice(t)
        \/ ListAll(t)

----------------------------------------------------------------------------
(* The UX-update bus of one channel: the broadcast queue made by            *)
(* broadcast::channel(16), its publisher, and subscribers that run          *)
(* handle_updates on their receiver.                                        *)

UxQueueCapacity == 16

\* The publisher sends at most this many updates.
MaxEvents == 18

Subscribers == {"s1", "s2"}

\* What read!("{}\n") gives: an empty line, or a PIN.
PinInputs == {"", "1234"}

UvUpdateKinds == <<"PresenceRequired", "UvRetry", "PinRequired">>

\* The n-th update the publisher sends; the kinds take turns.
UvUpdate(n) == [seq |-> n, kind |-> UvUpdateKinds[(n % 3) + 1]]

NoUpdate == [seq |-> 0, kind |-> "-"]

\* A slip: a full queue keeps its oldest update and grows.
send_grows(queue, tail, receivers, update) ==
    IF receivers = 0
    THEN [queue |-> queue, tail |-> tail]
    ELSE [queue |-> Append(queue, update), tail |-> tail + 1]

\* broadcast::Sender::send.  It never waits: with no receiver the update
\* comes back to the sender, with a full queue it takes the oldest slot.
send(queue, tail, receivers, update) ==
    IF receivers = 0
    THEN [queue |-> queue, tail |-> tail]
    ELSE [queue |-> IF Len(queue) = UxQueueCapacity
                    THEN Append(Tail(queue), update)
                    ELSE Append(queue, update),
          tail |-> tail + 1]

\* A slip: the queue is read from its newest end.
recv_newest_first(queue, tail, open, next) ==
    LET oldest == tail - Len(queue) + 1 IN
    IF next < oldest
    THEN [result |-> "Lagged", update |-> NoUpdate,
          next |-> oldest, missed |-> oldest - next]
    ELSE IF next <= tail
    THEN [result |-> "Ok", update |-> queue[Len(queue) - (next - oldest)],
          next |-> next + 1, missed |-> 0]
    ELSE IF ~open
    THEN [result |-> "Closed", update |-> NoUpdate, next |-> next, missed |-> 0]
    ELSE [result |-> "Pending", update |-> NoUpdate, next |-> next, missed |-> 0]

\* broadcast::Receiver::recv for a receiver whose next slot is `next`:
\* Err(Lagged(missed)) when that slot was overwritten, and the receiver then
\* stands at the oldest retained update; the update in the slot; Err(Closed)
\* when the queue is drained and every sender is gone; else it waits.
recv(queue, tail, open, next) ==
    LET oldest == tail - Len(queue) + 1 IN
    IF next < oldest
    THEN [result |-> "Lagged", update |-> NoUpdate,
          next |-> oldest, missed |-> oldest - next]
    ELSE IF next <= tail
    THEN [result |-> "Ok", update |-> queue[next - oldest + 1],
          next |-> next + 1, missed |-> 0]
    ELSE IF ~open
    THEN [result |-> "Closed", update |-> NoUpdate, next |-> next, missed |-> 0]
    ELSE [result |-> "Pending", update |-> NoUpdate, next |-> next, missed |-> 0]

\* A slip: an empty PIN is neither sent nor cancelled.
handle_update_ignores_empty(update, pin_raw) ==
    IF update.kind = "PinRequired"
    THEN IF pin_raw = ""
         THEN [cancel |-> 0, send_pin |-> 0]
         ELSE [cancel |-> 0, send_pin |-> 1]
    ELSE [cancel |-> 0, send_pin |-> 0]

\* The match of handle_updates on one update: the calls of update.cancel()
\* and update.send_pin(&pin_raw) it makes.
handle_update(update, pin_raw) ==
    IF update.kind = "PinRequired"
    THEN IF pin_raw = ""
         THEN [cancel |-> 1, send_pin |-> 0]
         ELSE [cancel |-> 0, send_pin |-> 1]
    ELSE [cancel |-> 0, send_pin |-> 0]

\* A slip: a new receiver starts at the oldest update the queue retains.
subscribe_from_oldest(queue, tail) == tail - Len(queue) + 1

\* broadcast::Sender::subscribe: the slot a new receiver reads first, the one
\* the next send fills.
subscribe(queue, tail) == tail + 1

\* since: the number of updates the publisher had sent when it subscribed.
NoSubscriber ==
    [state |-> "none", next |-> 0, last |-> 0, reason |-> "-", missed |-> 0,
     since |-> 0]

NotHandled ==
    [update |-> NoUpdate, pin_raw |-> "-", cancel |-> 0, send_pin |-> 0]

Receivers == {s \in Subscribers : b_sub[s].state = "receiving"}

UxInit ==
    /\ b_open = TRUE
    /\ b_queue = <<>>
    /\ b_tail = 0
    /\ b_emitted = 0
    /\ b_sub = [s \in Subscribers |-> NoSubscriber]
    /\ b_handled = [s \in Subscribers |-> NotHandled]

\* ux_update_sender.subscribe(), and handle_updates started on the receiver:
\* it sees the updates sent from now on.
UxSubscribe(s) ==
    /\ b_open
    /\ b_sub[s].state = "none"
    /\ b_sub' = [b_sub EXCEPT ![s] =
                    [NoSubscriber EXCEPT !.state = "receiving",
                                         !.next = subscribe(b_queue, b_tail),
                                         !.since = b_emitted]]
    /\ UNCHANGED <<b_open, b_queue, b_tail, b_emitted, b_handled>>
    /\ UNCHANGED uxOthers

\* The publisher sends its next update.
UxPublish ==
    /\ b_open
    /\ b_emitted < MaxEvents
    /\ LET sent == send(b_queue, b_tail, Cardinality(Receivers),
                        UvUpdate(b_emitted + 1)) IN
        /\ b_queue' = sent.queue
        /\ b_tail' = sent.tail
    /\ b_emitted' = b_emitted + 1
    /\ UNCHANGED <<b_open, b_sub, b_handled>>
    /\ UNCHANGED uxOthers

\* One turn of the loop of handle_updates: recv, then the match on the
\* update; the loop ends on the first Err.
HandleUpdates(s) ==
    /\ b_sub[s].state = "receiving"
    /\ LET r == recv(b_queue, b_tail, b_open, b_sub[s].next) IN
        /\ r.result # "Pending"
        /\ IF r.result = "Ok"
           THEN /\ b_sub' = [b_sub EXCEPT ![s].next = r.next,
                                          ![s].last = r.update.seq]
                /\ \E pin_raw \in IF r.update.kind = "PinRequired"
                                  THEN PinInputs ELSE {"-"} :
                       b_handled' =
                           [b_handled EXCEPT ![s] =
                               [update |-> r.update, pin_raw |-> pin_raw,
                                cancel |-> handle_update(r.update, pin_raw).cancel,
                                send_pin |-> handle_update(r.update, pin_raw).send_pin]]
           ELSE /\ b_sub' = [b_sub EXCEPT ![s].state = "returned",
                                          ![s].next = r.next,
                                          ![s].reason = r.result,
                                          ![s].missed = r.missed]
                /\ UNCHANGED b_handled
    /\ UNCHANGED <<b_open, b_queue, b_tail, b_emitted>>
    /\ UNCHANGED uxOthers

\* The channel is dropped, and with it the senders of the bus.
UxClose ==
    /\ b_open
    /\ b_open' = FALSE
    /\ UNCHANGED <<b_queue, b_tail, b_emitted, b_sub, b_handled>>
    /\ UNCHANGED uxOthers

UxNext ==
    \/ \E s \in Subscribers : UxSubscribe(s)
    \/ UxPublish
    \/ \E s \in Subscribers : HandleUpdates(s)
    \/ UxClose

----------------------------------------------------------------------------
(* Specifications.                                                         *)

UvNext ==
    \/ \E blocked \in BOOLEAN : UvOperationCall(blocked)
    \/ IsUvProtectedCall
    \/ QueryInfo
    \/ ChooseMethod
    \/ UvToken
    \/ UvInvalid
    \/ UvBlocked
    \/ PinToken
    \/ PinInvalid
    \/ PinBlocked
    \/ AuthenticateRequest
    \/ NewRequest

\* The protocol layer on one channel.
Init == UvIdle /\ ProtoInit /\ ChanInit /\ CodecInit /\ MgmtIdle /\ CableInit /\ StoreInit
            /\ UxInit

Next == ProtoNext

Spec == Init /\ [][Next]_vars

\* Method selection and the PIN/UV orchestrator.
InitUv == UvInit /\ ProtoInit /\ ChanInit /\ CodecInit /\ MgmtIdle /\ CableInit /\ StoreInit
            /\ UxInit

SpecUv == InitUv /\ [][UvNext]_vars

\* One transport channel, its caller and its I/O task.
InitChan == UvIdle /\ ProtoInit /\ ChanInit /\ CodecInit /\ MgmtIdle /\ CableInit /\ StoreInit
            /\ UxInit

\* The codec: values serialized, credential types received and decoded.
InitCodec == UvIdle /\ ProtoInit /\ ChanInit /\ CodecInit /\ MgmtIdle /\ CableInit /\ StoreInit
            /\ UxInit

SpecCodec == InitCodec /\ [][CodecNext]_vars

\* The authenticator configuration example.
InitMgmt == UvIdle /\ ProtoInit /\ ChanInit /\ CodecInit /\ MgmtInit /\ CableInit /\ StoreInit
            /\ UxInit

SpecMgmt == InitMgmt /\ [][MgmtNext]_vars

\* Known devices: linking records and connection attempts.
InitCable == UvIdle /\ ProtoInit /\ ChanInit /\ CodecInit /\ MgmtIdle /\ CableInit /\ StoreInit
            /\ UxInit

SpecCable == InitCable /\ [][CableNext]_vars

\* A known device, the channels opened to it and their connection tasks.
InitKnownDevice == UvIdle /\ ProtoInit /\ ChanInit /\ CodecInit /\ MgmtIdle /\ KnownDeviceInit
            /\ StoreInit /\ UxInit

SpecKnownDevice == InitKnownDevice /\ [][KnownDeviceNext]_vars

\* The known-device store and the tasks calling it.
InitStore == UvIdle /\ ProtoInit /\ ChanInit /\ CodecInit /\ MgmtIdle /\ CableInit /\ StoreInit
            /\ UxInit

SpecStore == InitStore /\ [][StoreNext]_vars

SpecChan == InitChan /\ [][ChanNext]_vars

\* The UX-update bus of one channel, its publisher and its subscribers.
InitUx == UvIdle /\ ProtoInit /\ ChanInit /\ CodecInit /\ MgmtIdle /\ CableInit /\ StoreInit
            /\ UxInit

SpecUx == InitUx /\ [][UxNext]_vars

----------------------------------------------------------------------------
(* Method selection: the table of section 4.4.1, written from the table.   *)

Enabled(i, name) == i.has_options /\ i.options[name] = "true"

Table411(i, blocked) ==
    IF Enabled(i, "uv") /\ ~blocked
    THEN IF Enabled(i, "pinUvAuthToken")
         THEN "GetPinUvAuthTokenUsingUvWithPermissions"
         ELSE "None"
    ELSE IF Enabled(i, "pinUvAuthToken")
         THEN "GetPinUvAuthTokenUsingPinWithPermissions"
         ELSE IF Enabled(i, "clientPin") THEN "GetPinToken" ELSE "None"

\* The operation a result of uv_operation stands for; both Some(None) and
\* the empty Option read as the table's "None".
OpOf(r) == IF r = Panic THEN "panic" ELSE IF r = NoneOpt THEN "None" ELSE r[2]

\* The combination on which the assert! of uv_operation fails.
AssertFails(i, blocked) ==
    /\ ~(Enabled(i, "uv") /\ ~blocked)
    /\ Enabled(i, "pinUvAuthToken")
    /\ ~Enabled(i, "clientPin")

ClientPinAbsent(i) == ~i.has_options \/ i.options["clientPin"] = "absent"

PinFlows == {Some("GetPinToken"), Some("GetPinUvAuthTokenUsingPinWithPermissions")}

\* C1 as stated: for every combination of uv, pinUvAuthToken, clientPin and
\* uv_blocked, uv_operation returns the operation of the 4.4.1 table.
C1_Original ==
    uv_call.called => OpOf(uv_call.result) = Table411(info, uv_call.blocked)

\* C1, amended: uv_operation returns the operation of the 4.4.1 table on every
\* combination except pinUvAuthToken true, clientPin not true and built-in UV
\* unusable (uv not true, or uv_blocked), where it returns nothing: its
\* assertion on clientPin fails.
C1_UvOperationTable ==
    uv_call.called =>
        IF AssertFails(info, uv_call.blocked)
        THEN uv_call.result = Panic
        ELSE OpOf(uv_call.result) = Table411(info, uv_call.blocked)

C1_Witness ==
    /\ uv_call.called
    /\ uv_call.blocked
    /\ Enabled(info, "uv")
    /\ uv_call.result = Some("GetPinUvAuthTokenUsingPinWithPermissions")

\* C2: with the clientPin option absent no PIN-token flow is selected (by a
\* call of uv_operation or by the orchestrator), and with pinUvAuthToken true
\* GetPinToken is never selected.
C2_NoPinFlowWithoutClientPin ==
    /\ uv_call.called =>
          /\ ClientPinAbsent(info) => uv_call.result \notin PinFlows
          /\ Enabled(info, "pinUvAuthToken") => uv_call.result # Some("GetPinToken")
    /\ ClientPinAbsent(info) => uv_pc # "AcquirePin"
    /\ \A k \in 1..Len(uv_selections) :
          /\ ClientPinAbsent(info) => uv_selections[k] \notin PinFlows
          /\ Enabled(info, "pinUvAuthToken") => uv_selections[k] # Some("GetPinToken")

C2_Witness ==
    /\ uv_call.called
    /\ uv_call.blocked
    /\ ClientPinAbsent(info)
    /\ Enabled(info, "pinUvAuthToken")
    /\ Enabled(info, "uv")
    /\ uv_call.result \notin PinFlows
    /\ Len(uv_selections) = 2

InfoUvTokenPin ==
    [has_options |-> TRUE,
     options |-> [n \in OptionNames |-> "true"]]

HasFallbackEvent ==
    \E k \in 1..Len(ux_events) :
        ux_events[k].kind = "PinRequired" /\ ux_events[k].reason = "FallbackFromUV"

\* C3: with uv, pinUvAuthToken and clientPin all true, the first selection is
\* UV-with-permissions; after UvBlocked a PinRequired{FallbackFromUV} event
\* has been published, the second selection (uv_blocked = true) is
\* PIN-with-permissions, and built-in UV is not selected again in the request.
C3_FallbackFromUv ==
    (info = InfoUvTokenPin /\ uv_selections # <<>>) =>
        /\ uv_selections[1] = Some("GetPinUvAuthTokenUsingUvWithPermissions")
        /\ Len(uv_selections) <= 2
        /\ uv_blocked <=> Len(uv_selections) = 2
        /\ uv_blocked <=> HasFallbackEvent
        /\ uv_blocked =>
              /\ uv_selections[2] = Some("GetPinUvAuthTokenUsingPinWithPermissions")
              /\ uv_pc # "AcquireUv"
              /\ ux_events[1] = PinRequired("FallbackFromUV", {})
                    \/ ux_events[1].kind = "UvRetry"

C3_Witness ==
    /\ info = InfoUvTokenPin
    /\ uv_blocked
    /\ uv_failures = 0
    /\ uv_pc = "Done"
    /\ HasFallbackEvent

----------------------------------------------------------------------------
(* The protocol layer's claims.                                            *)

\* cbor_recv delivered a response to the method.
Delivered == p_pc = "returned" /\ p_send.ok /\ p_recv.ok

\* The response type each method decodes the body into.
ResponseType(method) ==
    IF method = "get_info" THEN "Ctap2GetInfoResponse"
    ELSE IF method = "make_credential" THEN "Ctap2MakeCredentialResponse"
    ELSE IF method \in {"get_assertion", "get_next_assertion"}
         THEN "Ctap2GetAssertionResponse"
    ELSE IF method = "client_pin" THEN "Ctap2ClientPinResponse"
    ELSE IF method = "bio_enrollment" THEN "Ctap2BioEnrollmentResponse"
    ELSE IF method = "credential_management" THEN "Ctap2CredentialManagementResponse"
    ELSE "()"

DecodingMethods ==
    {"get_info", "make_credential", "get_assertion", "get_next_assertion",
     "client_pin", "bio_enrollment", "credential_management"}

Decoded == from_slice(ResponseType(p_call.method), p_recv.data)

InvalidDeviceResponse == Err("Platform", "InvalidDeviceResponse")

\* C4 as stated: whenever cbor_recv delivers a response whose status is not
\* Ok, the method (any of the nine) returns Error::Ctap(status) and does not
\* attempt to decode the body.
C4_ErrorStatusReturned ==
    (Delivered /\ p_recv.status_code # "Ok") =>
        /\ p_ret.result = Err("Ctap", p_recv.status_code)
        /\ ~p_ret.parsed

\* C5: for clientPin, bioEnrollment and credentialManagement an Ok response
\* without a body gives the response type's default value as success, and an
\* Ok response with a body gives the decoded body.
C5_DefaultForAbsentBody ==
    (/\ Delivered
     /\ p_call.method \in {"client_pin", "bio_enrollment", "credential_management"}
     /\ p_recv.status_code = "Ok") =>
        /\ ~p_recv.has_data =>
              p_ret.result = Ok([type |-> ResponseType(p_call.method), fields |-> {}])
        /\ (p_recv.has_data /\ Decoded.ok) => p_ret.result = Ok(Decoded.value)

C5_Witness ==
    /\ Delivered
    /\ p_call.method = "bio_enrollment"
    /\ p_recv.status_code = "Ok"
    /\ ~p_recv.has_data
    /\ p_ret.result.ok

\* C6: authenticatorSelection and authenticatorConfig succeed exactly when the
\* response status is Ok, whatever the body; the body is never decoded and an
\* Ok response never gives a decode error.
C6_UnitCommandsIgnoreBody ==
    (Delivered /\ p_call.method \in {"selection", "authenticator_config"}) =>
        /\ p_ret.result.ok <=> p_recv.status_code = "Ok"
        /\ p_ret.result.ok => p_ret.result.value = [type |-> "()", fields |-> {}]
        /\ ~p_ret.parsed
        /\ p_ret.result # InvalidDeviceResponse

C6_Witness ==
    /\ Delivered
    /\ p_call.method = "authenticator_config"
    /\ p_recv.status_code = "Ok"
    /\ p_recv.has_data
    /\ p_recv.data = <<255>>
    /\ p_ret.result.ok

\* C7: in every method that decodes a body, a body that fails to decode makes
\* the method return Platform(InvalidDeviceResponse); a present body that does
\* not decode never gives a successful (partial or default) response.
C7_DecodeFailureIsFatal ==
    (/\ Delivered
     /\ p_call.method \in DecodingMethods
     /\ p_recv.has_data
     /\ ~Decoded.ok) =>
        /\ ~p_ret.result.ok
        /\ p_ret.parsed => p_ret.result = InvalidDeviceResponse
        /\ p_recv.status_code = "Ok" => p_ret.parsed

C7_Witness ==
    /\ Delivered
    /\ p_call.method = "bio_enrollment"
    /\ p_recv.status_code = "Ok"
    /\ p_recv.has_data
    /\ p_recv.data = <<161, 1>>
    /\ p_ret.result = InvalidDeviceResponse

\* C10: ctap2_get_info gives the fixed 250 ms timeout to its cbor_send and its
\* cbor_recv; every other method gives the caller's timeout to both.
C10_Timeouts ==
    p_pc = "returned" =>
        /\ Len(p_ret.ops) = (IF p_send.ok THEN 2 ELSE 1)
        /\ p_ret.ops[1].op = "cbor_send"
        /\ p_send.ok => p_ret.ops[2].op = "cbor_recv"
        /\ \A k \in 1..Len(p_ret.ops) :
              IF p_call.method = "get_info"
              THEN p_ret.ops[k].timeout = 250
              ELSE p_call.timeout = {p_ret.ops[k].timeout}

C10_Witness ==
    /\ p_pc = "returned"
    /\ p_call.method = "get_next_assertion"
    /\ p_call.timeout = {10000}
    /\ Len(p_ret.ops) = 2
    /\ p_ret.ops[2].timeout = 10000

----------------------------------------------------------------------------
(* The channel's claims.                                                   *)

----------------------------------------------------------------------------
(* The codec's test vectors and canonical form.                            *)

\* a263616c672664747970656a7075626c69632d6b6579, byte by byte.
ExpectedCredentialType ==
    <<162, 99, 97, 108, 103, 38, 100, 116, 121, 112, 101,
      106, 112, 117, 98, 108, 105, 99, 45, 107, 101, 121>>

Es256PublicKey == [algorithm |-> "ES256", public_key_type |-> "PublicKey"]

\* C11 as written: {alg: -7, type: "public-key"} serializes to exactly
\* a263616c672664747970656a7075626c69632d6b6579, and that is 20 bytes.
C11_Original ==
    ser_value = CredentialTypeValue(Es256PublicKey)
        => /\ ser_bytes = ExpectedCredentialType
           /\ Len(ser_bytes) = 20

\* C11, amended: {alg: -7, type: "public-key"} serializes to exactly
\* a263616c672664747970656a7075626c69632d6b6579, which is 22 bytes long.
C11_CredentialTypeBytes ==
    ser_value = CredentialTypeValue(Es256PublicKey)
        => /\ ser_bytes = ExpectedCredentialType
           /\ Len(ser_bytes) = 22

C11_Witness ==
    /\ ser_value = CredentialTypeValue(Es256PublicKey)
    /\ Len(ser_bytes) > 0

\* A map key as it reads: an unsigned integer or a text string.
IntKey(n) == <<"int", n, <<>>>>
TextKey(s) == <<"text", 0, Utf8(s)>>

KeyAt(bytes, pos) ==
    IF MajorAt(bytes, pos) = 0 THEN <<"int", ArgValue(bytes, pos), <<>>>>
    ELSE <<"text", 0, StringAt(bytes, pos)>>

\* The keys of the map that starts the data, in wire order.
RECURSIVE KeysFrom(_, _, _)
KeysFrom(bytes, pos, entries) ==
    IF entries = 0 THEN <<>>
    ELSE <<KeyAt(bytes, pos)>>
             \o KeysFrom(bytes, ItemEnd(bytes, ItemEnd(bytes, pos)), entries - 1)

MapKeys(bytes) == KeysFrom(bytes, 1 + HeadLen(bytes, 1), ArgValue(bytes, 1))

\* The data is one map, keyed by small integers or text, and nothing else.
IsKeyedMap(bytes) ==
    /\ Len(bytes) > 0
    /\ MajorAt(bytes, 1) = 5
    /\ ItemEnd(bytes, 1) = Len(bytes) + 1
    /\ LET RECURSIVE KeyFrom(_, _)
           KeyFrom(pos, entries) ==
               entries = 0 \/ (/\ MajorAt(bytes, pos) \in {0, 3}
                               /\ KeyFrom(ItemEnd(bytes, ItemEnd(bytes, pos)), entries - 1))
       IN  KeyFrom(1 + HeadLen(bytes, 1), ArgValue(bytes, 1))

\* Canonical order of two keys: integers by value and before text, text
\* by length, then lexicographically.
CanonicalBefore(a, b) ==
    IF a[1] = "int" THEN (b[1] = "text" \/ a[2] < b[2])
    ELSE /\ b[1] = "text"
         /\ \/ Len(a[3]) < Len(b[3])
            \/ /\ Len(a[3]) = Len(b[3])
               /\ \E i \in 1..Len(a[3]) :
                      /\ a[3][i] < b[3][i]
                      /\ \A j \in 1..(i - 1) : a[3][j] = b[3][j]

StrictlyAscending(keys) ==
    \A i \in 1..(Len(keys) - 1) : CanonicalBefore(keys[i], keys[i + 1])

\* C12: every serialized map emits its keys in strictly ascending canonical
\* order: a credential type emits "alg" then "type", a descriptor emits "id"
\* then "type", then "transports" only when the field is present.
C12_KeysAscending ==
    ser_value.kind # "-"
        => /\ IsKeyedMap(ser_bytes)
           /\ StrictlyAscending(MapKeys(ser_bytes))
           /\ ser_value.kind = "Ctap2CredentialType"
                  => MapKeys(ser_bytes) = <<TextKey("alg"), TextKey("type")>>
           /\ (ser_value.kind = "Ctap2PublicKeyCredentialDescriptor"
                   /\ ser_value.transports = NoTransports)
                  => MapKeys(ser_bytes) = <<TextKey("id"), TextKey("type")>>
           /\ (ser_value.kind = "Ctap2PublicKeyCredentialDescriptor"
                   /\ ser_value.transports # NoTransports)
                  => MapKeys(ser_bytes)
                         = <<TextKey("id"), TextKey("type"), TextKey("transports")>>
           /\ ser_value.kind = "ClientPayload"
                  => MapKeys(ser_bytes) = <<IntKey(1), IntKey(2), IntKey(3)>>

\* A descriptor with two transports was serialized.
C12_Witness ==
    /\ ser_value.kind = "Ctap2PublicKeyCredentialDescriptor"
    /\ ser_value.transports = SomeTransports(<<"Usb", "Internal">>)
    /\ ser_value.id = <<66>>
    /\ Len(ser_bytes) > 0

\* C13: for every Ctap2CredentialType R, decode(encode(R)) = R.
C13_RoundTrip ==
    (ser_value.kind = "Ctap2CredentialType" /\ de_result.done)
        => /\ de_result.result[1] = "Ok"
           /\ de_result.result[2].algorithm = ser_value.algorithm
           /\ de_result.result[2].public_key_type = ser_value.public_key_type

C13_Witness ==
    /\ ser_value.kind = "Ctap2CredentialType"
    /\ ser_value.algorithm = "Unknown"
    /\ ser_value.public_key_type = "Unknown"
    /\ de_result.done

\* The algorithm an alg value stands for.
AlgorithmOf(a) ==
    CASE a = <<38>> -> "ES256"
      [] a = <<39>> -> "EDDSA"
      [] a = <<40>> -> "TOPT"
      [] OTHER -> "Unknown"

TypeOf(t) == IF t = "public-key" THEN "PublicKey" ELSE "Unknown"

\* C14: decoding a credential type never fails because of an unrecognised
\* value: an alg integer outside {-7, -8, -9} decodes to Unknown, a type
\* string other than "public-key" decodes to Unknown, and is_known() is true
\* exactly when neither is Unknown.
C14_UnknownNeverFails ==
    \A a \in AlgItems, t \in TypeNames, f \in BOOLEAN :
        (ser_value.kind = "-" /\ ser_bytes = WireCredentialType(a, t, f) /\ de_result.done)
            => /\ de_result.result[1] = "Ok"
               /\ de_result.result[2].algorithm = AlgorithmOf(a)
               /\ de_result.result[2].public_key_type = TypeOf(t)
               /\ de_result.is_known
                      <=> (AlgorithmOf(a) # "Unknown" /\ TypeOf(t) # "Unknown")

----------------------------------------------------------------------------
(* The configuration example: availability rules and the operation loop.   *)

Offered(op) == \E k \in 1..Len(m_options) : m_options[k].op = op

Present(name) == m_info.has_options /\ m_info.options[name] # "absent"

IsTrue(name) == m_info.has_options /\ m_info.options[name] = "true"

\* C15: get_supported_options offers ToggleAlwaysUv exactly when authnrCfg is
\* true and alwaysUv is present; SetMinPinLength, SetMinPinLengthRpids and a
\* force-change-PIN operation exactly when authnrCfg is true and
\* setMinPINLength is present; EnableEnterpriseAttestation exactly when ep is
\* present; and nothing when the option map is absent.
C15_SupportedOptions ==
    m_pc # "info"
        => /\ Offered("ToggleAlwaysUv") <=> (IsTrue("authnrCfg") /\ Present("alwaysUv"))
           /\ \A op \in {"SetMinPinLength", "SetMinPinLengthRpids"} :
                  Offered(op) <=> (IsTrue("authnrCfg") /\ Present("setMinPINLength"))
           /\ (Offered("EnableForceChangePin") \/ Offered("DisableForceChangePin"))
                  <=> (IsTrue("authnrCfg") /\ Present("setMinPINLength"))
           /\ Offered("EnableEnterpriseAttestation") <=> Present("ep")
           /\ ~m_info.has_options => m_options = <<>>
           /\ \A k \in 1..Len(m_options) :
                  m_options[k].op \in {"ToggleAlwaysUv", "SetMinPinLength",
                                       "SetMinPinLengthRpids", "EnableForceChangePin",
                                       "DisableForceChangePin", "EnableEnterpriseAttestation"}

\* alwaysUv is present but false and the toggle is offered; so is ep.
C15_Witness ==
    /\ m_pc = "menu"
    /\ m_info.has_options
    /\ m_info.options["authnrCfg"] = "true"
    /\ m_info.options["alwaysUv"] = "false"
    /\ m_info.options["setMinPINLength"] = "absent"
    /\ m_info.options["ep"] = "false"
    /\ Len(m_options) = 2

\* A result after which the loop goes round again (section 7).
Retryable(result) ==
    /\ ~result.ok
    /\ result.err[1] = "Ctap"
    /\ result.err[2] \in {"PinInvalid", "UvInvalid"}

\* C16: the loop re-issues the same operation after, and only after, a
\* retryable CTAP error; it ends with success on the first Ok and with the
\* error on the first non-retryable CTAP error or platform/transport error,
\* and issues nothing after that.
C16_RetryLoop ==
    /\ Len(m_issued) = Len(m_results)
    /\ \A k \in 1..Len(m_issued) : m_issued[k] = m_options[m_idx]
    /\ \A k \in 1..(Len(m_results) - 1) : Retryable(m_results[k])
    /\ (m_pc = "loop" /\ Len(m_results) > 0) => Retryable(m_results[Len(m_results)])
    /\ m_pc = "done"
           => /\ Len(m_results) > 0
              /\ ~Retryable(m_results[Len(m_results)])
              /\ m_outcome = m_results[Len(m_results)]
    /\ m_pc \in {"info", "menu"} => m_issued = <<>>

\* After two retryable errors the third attempt ended the loop with an error
\* that is not retryable.
C16_Witness ==
    /\ m_pc = "done"
    /\ Len(m_issued) = 3
    /\ m_results[1] = Err("Ctap", "PinInvalid")
    /\ m_results[2] = Err("Ctap", "UvInvalid")
    /\ m_outcome = Err("Ctap", "PinBlocked")

----------------------------------------------------------------------------
(* Known devices: connection stages, the store, the device id.             *)

Failed(k) == k_outcomes[k][1] = "Err"

\* C17: a known-device connection attempt runs connection, proximity check
\* and handshake strictly in that order: a stage starts only after the one
\* before it succeeded, the first failing stage's error is the attempt's
\* result, and no stage starts after a failure.
C17_StagesInOrder ==
    /\ Len(k_started) <= Len(Stages)
    /\ \A k \in 1..Len(k_started) : k_started[k] = Stages[k]
    /\ Len(k_outcomes) <= Len(k_started)
    /\ Len(k_started) <= Len(k_outcomes) + 1
    /\ \A k \in 2..Len(k_started) : ~Failed(k - 1)
    /\ \A k \in 1..Len(k_outcomes) : Failed(k) => Len(k_started) = k
    /\ k_pc = "returned"
           => /\ Len(k_outcomes) = Len(k_started)
              /\ IF \E k \in 1..Len(k_outcomes) : Failed(k)
                 THEN k_result = k_outcomes[Len(k_outcomes)]
                 ELSE /\ Len(k_outcomes) = Len(Stages)
                      /\ k_result[1] = "Ok"
    /\ k_pc \in {"idle"} \cup {Stages[k] : k \in 1..Len(Stages)} => k_result = NoStageResult
    /\ k_pc \in {Stages[k] : k \in 1..Len(Stages)}
           => /\ k_started # <<>>
              /\ k_pc = k_started[Len(k_started)]
              /\ Len(k_outcomes) = Len(k_started) - 1

\* The proximity check failed after a successful connection stage.
C17_Witness ==
    /\ k_pc = "returned"
    /\ k_started = <<"connection_stage", "proximity_check_stage">>
    /\ k_outcomes = <<StageOk("connection_stage"), StageErr("Timeout")>>
    /\ k_result = StageErr("Timeout")

\* The content a store has after one call, as a set of (id, info) pairs.
ApplyCall(pairs, call) ==
    CASE call.op = "put_known_device"
             -> {p \in pairs : p[1] # call.id} \cup {<<call.id, call.device>>}
      [] call.op = "delete_known_device" -> {p \in pairs : p[1] # call.id}
      [] OTHER -> pairs

\* The content after a sequence of calls on a new store.
RECURSIVE ApplyAll(_)
ApplyAll(calls) ==
    IF calls = <<>> THEN {}
    ELSE ApplyCall(ApplyAll(SubSeq(calls, 1, Len(calls) - 1)), calls[Len(calls)])

StoreContent == {<<k, known_devices[k]>> : k \in DOMAIN known_devices}

\* C18: after any sequence of put_known_device and delete_known_device calls
\* the store's content is the map obtained by applying the calls in order
\* (put replaces, delete removes or does nothing, other ids are untouched),
\* and list_all returns exactly that content.
C18_StoreContent ==
    /\ StoreContent = ApplyAll(s_log)
    /\ \A p, q \in StoreContent : p[1] = q[1] => p = q
    /\ s_snapshot.taken
           => s_snapshot.pairs = ApplyAll(SubSeq(s_log, 1, s_snapshot.after))

\* A record was replaced, then an absent id was deleted.
C18_Witness ==
    /\ s_log = << StoreCall("put_known_device", "04ab", "d1"),
                  StoreCall("put_known_device", "04ab", "d2"),
                  StoreCall("delete_known_device", "0110", "-") >>
    /\ StoreContent = {<<"04ab", "d2">>}

\* C19: concurrent calls of put_known_device, delete_known_device and
\* list_all, from any tasks and clones, take effect one at a time: the
\* content is the result of the calls in one sequential order, and list_all
\* never returns what it read in the middle of another call's update.
C19_CallsAtomic ==
    /\ ~s_snapshot.during_write
    /\ Cardinality({t \in Tasks : s_pc[t] \in {"locked", "writing"}}) <= 1
    /\ s_writing # NoTask => s_lock = s_writing
    /\ Len(s_log) + Cardinality({t \in Tasks : s_pc[t] # "idle"}) = s_calls
    /\ (\A t \in Tasks : s_pc[t] = "idle") => StoreContent = ApplyAll(s_log)

\* One task is rewriting the map while another waits for the lock to list it.
C19_Witness ==
    /\ s_pc["t1"] = "writing"
    /\ s_call["t1"].op = "put_known_device"
    /\ s_pc["t2"] = "lock"
    /\ s_call["t2"].op = "list_all"
    /\ Len(s_log) = 1

\* The value of a hexadecimal digit.
DigitValue(c) == CHOOSE n \in 0..15 : HexDigits[n + 1] = c

\* The text is the hex encoding of the bytes.
IsHexOf(text, bytes) ==
    /\ Len(text) = 2 * Len(bytes)
    /\ \A k \in 1..Len(bytes) :
           /\ text[2 * k - 1] \in {HexDigits[n] : n \in 1..16}
           /\ text[2 * k] \in {HexDigits[n] : n \in 1..16}
           /\ 16 * DigitValue(text[2 * k - 1]) + DigitValue(text[2 * k]) = bytes[k]

\* C20: the device id of a linking record is the hex encoding of its
\* authenticator public key: two records have the same id exactly when their
\* keys are equal, and the id of a successfully built CableKnownDeviceInfo is
\* the hex encoding of that info's public_key.
C20_DeviceId ==
    /\ Len(d_ids) = Len(d_linking)
    /\ Len(d_infos) = Len(d_linking)
    /\ \A k \in 1..Len(d_linking) :
           /\ IsHexOf(d_ids[k], d_linking[k].authenticator_public_key)
           /\ d_infos[k].ok => IsHexOf(d_ids[k], d_infos[k].public_key)
    /\ \A j, k \in 1..Len(d_linking) :
           d_ids[j] = d_ids[k]
               <=> d_linking[j].authenticator_public_key
                       = d_linking[k].authenticator_public_key

\* Two records whose keys differ in where a nibble sits, both built.
C20_Witness ==
    /\ Len(d_linking) = 2
    /\ d_linking[1].authenticator_public_key = Filled(1, 16, 0, PublicKeyLen)
    /\ d_linking[2].authenticator_public_key = Filled(17, 0, 0, PublicKeyLen)
    /\ d_infos[1].ok
    /\ d_infos[2].ok

C26_IsUvProtected ==
    uv_call.asked =>
        (uv_call.uv_protected <=>
            /\ Enabled(info, "pinUvAuthToken")
            /\ (Enabled(info, "clientPin") \/ Enabled(info, "uv")))

\* The arguments on which the claim of C27 speaks: pinUvAuthToken true,
\* clientPin not true, and built-in UV not usable.
UvUnusable(i, blocked) == ~Enabled(i, "uv") \/ blocked

TokenWithoutPin(i) == Enabled(i, "pinUvAuthToken") /\ ~Enabled(i, "clientPin")

\* C27: when pinUvAuthToken is true, clientPin is not true and built-in UV is
\* not usable, uv_operation returns no value, neither an operation nor "no
\* method": its assertion fails, in a direct call and in the orchestrator's
\* method selection, which then aborts.
C27_AssertAborts ==
    /\ (uv_call.called /\ TokenWithoutPin(info) /\ UvUnusable(info, uv_call.blocked))
           => /\ uv_call.result = Panic
              /\ uv_call.result # NoneOpt
              /\ uv_call.result \notin {Some(op) : op \in Ctap2UserVerificationOperation}
    /\ (TokenWithoutPin(info) /\ UvUnusable(info, uv_blocked) /\ uv_selections # <<>>)
           => /\ uv_selections[Len(uv_selections)] = Panic
              /\ uv_pc = "Aborted"

\* Both ways into the failed assertion: uv not true, and uv true but blocked.
C27_Witness ==
    /\ uv_call.called
    /\ uv_call.blocked
    /\ TokenWithoutPin(info)
    /\ Enabled(info, "uv")
    /\ uv_call.result = Panic
    /\ uv_blocked
    /\ uv_pc = "Aborted"

C22_EmissionOrder ==
    [][\A s \in Subscribers :
          (b_sub[s].state = "receiving" /\ b_sub'[s].state = "receiving"
              /\ b_sub'[s].next # b_sub[s].next)
              => /\ b_sub'[s].last > b_sub[s].last
                 /\ b_sub'[s].last <= b_emitted
                 /\ b_handled'[s].update.seq = b_sub'[s].last]_vars

\* Two subscribers at different places of the stream, one of them having
\* joined after the first updates were sent.
C22_Witness ==
    /\ b_sub["s1"].last >= 3
    /\ b_sub["s2"].last >= 5
    /\ b_sub["s1"].last < b_sub["s2"].last
    /\ b_sub["s2"].state = "receiving"
    /\ b_emitted > b_sub["s2"].last

\* The slot a subscriber stood at before recv reported Lagged.
SlotBeforeLag(s) == b_sub[s].next - b_sub[s].missed

\* C23: publishing never blocks the publisher, whatever the number of
\* subscribers (none included) and however slowly they consume: as long as
\* the channel lives the next update can be sent.  The queue holds at most 16
\* updates, and a subscriber is told it lagged only when more than 16 updates
\* were stored since the slot it stood at; it then lost the oldest of them.
C23_PublishNeverBlocks ==
    /\ (b_open /\ b_emitted < MaxEvents) => ENABLED UxPublish
    /\ Len(b_queue) <= UxQueueCapacity
    /\ Len(b_queue) <= b_tail
    /\ b_tail <= b_emitted
    /\ \A k \in 1..Len(b_queue) : b_queue[k].seq \in 1..b_emitted
    /\ \A s \in Subscribers :
           IF b_sub[s].reason = "Lagged"
           THEN /\ b_sub[s].missed >= 1
                /\ b_tail - SlotBeforeLag(s) + 1 > UxQueueCapacity
                /\ b_tail - b_sub[s].next + 1 >= UxQueueCapacity
           ELSE b_sub[s].missed = 0

\* Updates were sent with no subscriber, then a subscriber that never took
\* one was overrun and lost the two oldest updates, with the queue full.
C23_Witness ==
    /\ b_emitted = MaxEvents
    /\ b_tail = MaxEvents
    /\ Len(b_queue) = UxQueueCapacity
    /\ b_sub["s1"].reason = "Lagged"
    /\ b_sub["s1"].missed = 2
    /\ b_sub["s1"].last = 0
    /\ b_sub["s2"].state = "none"

\* C24: every PinRequired update the handler receives is consumed exactly
\* once: the handler calls cancel when the entered PIN is empty and send_pin
\* when it is not, never both and never neither; on the other updates it
\* calls neither.
C24_PinRequiredConsumedOnce ==
    \A s \in Subscribers :
        IF b_handled[s].update.kind = "PinRequired"
        THEN /\ b_handled[s].cancel + b_handled[s].send_pin = 1
             /\ b_handled[s].cancel = 1 <=> b_handled[s].pin_raw = ""
             /\ b_handled[s].send_pin = 1 <=> b_handled[s].pin_raw # ""
        ELSE b_handled[s].cancel = 0 /\ b_handled[s].send_pin = 0

\* One handler cancelled a PIN request, the other answered the same request.
C24_Witness ==
    /\ b_handled["s1"].update.kind = "PinRequired"
    /\ b_handled["s1"].pin_raw = ""
    /\ b_handled["s1"].cancel = 1
    /\ b_handled["s2"].update = b_handled["s1"].update
    /\ b_handled["s2"].send_pin = 1

\* The successful sends and the receives of a channel's operations, in order.
RECURSIVE Accepted(_)
Accepted(wire) ==
    IF wire = <<>> THEN <<>>
    ELSE IF Head(wire) = "cbor_send: Err" THEN Accepted(Tail(wire))
    ELSE <<Head(wire)>> \o Accepted(Tail(wire))

Alternates(wire) ==
    \A k \in 1..Len(wire) :
        wire[k] = (IF k % 2 = 1 THEN "cbor_send: Ok" ELSE "cbor_recv")

\* C29: every method that runs to completion issues exactly one cbor_send and
\* then, only if that send succeeded, exactly one cbor_recv; a failed
\* cbor_send is returned to the caller unchanged and no cbor_recv is issued.
\* Over the completed calls on one channel the successful sends and the
\* receives alternate, starting with a send.
C29_OneSendThenOneRecv ==
    /\ p_pc = "returned" =>
          /\ Cardinality({k \in 1..Len(p_ret.ops) : p_ret.ops[k].op = "cbor_send"}) = 1
          /\ p_ret.ops[1].op = "cbor_send"
          /\ Cardinality({k \in 1..Len(p_ret.ops) : p_ret.ops[k].op = "cbor_recv"})
                 = (IF p_send.ok THEN 1 ELSE 0)
          /\ ~p_send.ok =>
                /\ ~p_ret.result.ok
                /\ p_ret.result.err = p_send.err
                /\ p_recv = NotReceived
    /\ Alternates(Accepted(p_wire))
    /\ Len(Accepted(p_wire)) % 2 = 0

\* A call whose send failed, after a call that sent and received.
C29_Witness ==
    /\ p_pc = "returned"
    /\ p_call.method = "get_assertion"
    /\ ~p_send.ok
    /\ p_ret.result.err = <<"Transport", "Timeout">>
    /\ p_wire = <<"cbor_send: Ok", "cbor_recv", "cbor_send: Err">>

BodyRequired == {"get_info", "make_credential", "get_assertion", "get_next_assertion"}

BodyOptional == {"client_pin", "bio_enrollment", "credential_management"}

\* C30: for get_info, make_credential, get_assertion and get_next_assertion a
\* response with status Ok and no body makes the method return an error, and
\* nothing is decoded or synthesized; for clientPin, bioEnrollment and
\* credentialManagement the same response gives a successful default.
C30_NoDefaultForAbsentBody ==
    (/\ p_pc = "returned"
     /\ p_send.ok
     /\ p_recv.ok
     /\ p_recv.status_code = "Ok"
     /\ ~p_recv.has_data) =>
        /\ p_call.method \in BodyRequired =>
              /\ ~p_ret.result.ok
              /\ p_ret.result.value = NoValue
              /\ p_ret.result.err[1] \notin {"-", "Transport", "Ctap"}
              /\ ~p_ret.parsed
        /\ p_call.method \in BodyOptional => p_ret.result.ok

C30_Witness ==
    /\ p_pc = "returned"
    /\ p_call.method = "get_next_assertion"
    /\ p_send.ok
    /\ p_recv.ok
    /\ p_recv.status_code = "Ok"
    /\ ~p_recv.has_data
    /\ ~p_ret.result.ok
    /\ Len(p_wire) = 4

\* C28: ctap2_get_info sends the command AuthenticatorGetInfo (0x04) with no
\* parameter map.  An Ok response whose map holds only versions (0x01) and
\* aaguid (0x03) decodes with no other field present, and on it
\* supports_fido_2_1() answers true exactly when the versions list holds the
\* string "FIDO_2_1".
C28_GetInfo ==
    (p_pc = "returned" /\ p_call.method = "get_info") =>
        /\ p_ret.ops[1].op = "cbor_send"
        /\ p_ret.ops[1].command = {AuthenticatorGetInfo}
        /\ AuthenticatorGetInfo = 4
        /\ ~p_ret.ops[1].has_params
        /\ \A versions \in VersionLists :
               (/\ p_send.ok /\ p_recv.ok /\ p_recv.status_code = "Ok"
                /\ p_recv.has_data /\ p_recv.data = GetInfoBody(versions)) =>
                   /\ p_ret.result.ok
                   /\ {f[1] : f \in p_ret.result.value.fields} = {1, 3}
                   /\ p_fido_2_1.asked =>
                          (p_fido_2_1.answer
                              <=> \E k \in 1..Len(versions) : versions[k] = "FIDO_2_1")

\* supports_fido_2_1 was asked of the response of an authenticator that
\* reports FIDO_2_1_PRE alone, and answered no.
C28_Witness ==
    /\ p_pc = "returned" /\ p_call.method = "get_info"
    /\ p_recv.ok /\ p_recv.has_data
    /\ p_recv.data = GetInfoBody(<<"FIDO_2_1_PRE">>)
    /\ p_ret.result.ok
    /\ p_fido_2_1.asked /\ ~p_fido_2_1.answer
----------------------------------------------------------------------------
(* is_uv_protected against uv_operation.                                   *)

----------------------------------------------------------------------------
(* The record of a known device, and the channel opened to it.             *)

\* C31: CableKnownDeviceInfo::new succeeds exactly when the linking record's
\* link_id is 8 bytes, its link_secret 32 bytes and its authenticator public
\* key 65 bytes; it then copies contact_id, link_id, link_secret, public key
\* and name unchanged and sets tunnel_domain to the given domain.  Otherwise
\* it returns Transport(InvalidFraming) and no record.
C31_KnownDeviceInfo ==
    \A i \in 1..Len(d_infos) :
        /\ d_infos[i].ok <=>
               /\ Len(d_linking[i].link_id) = 8
               /\ Len(d_linking[i].link_secret) = 32
               /\ Len(d_linking[i].authenticator_public_key) = 65
        /\ d_infos[i].ok =>
               /\ d_infos[i].contact_id = d_linking[i].contact_id
               /\ d_infos[i].link_id = d_linking[i].link_id
               /\ d_infos[i].link_secret = d_linking[i].link_secret
               /\ d_infos[i].public_key = d_linking[i].authenticator_public_key
               /\ d_infos[i].name = d_linking[i].authenticator_name
               /\ d_infos[i].tunnel_domain = d_domains[i]
        /\ ~d_infos[i].ok =>
               /\ d_infos[i].err = <<"Transport", "InvalidFraming">>
               /\ d_infos[i].contact_id = <<>> /\ d_infos[i].link_id = <<>>
               /\ d_infos[i].link_secret = <<>> /\ d_infos[i].public_key = <<>>
               /\ d_infos[i].name = "-" /\ d_infos[i].tunnel_domain = "-"

\* A record with a link secret of 33 bytes was refused, then a well-sized
\* record that came through the second tunnel domain was accepted.
C31_Witness ==
    /\ Len(d_infos) = 2
    /\ Len(d_linking[1].link_id) = 8
    /\ Len(d_linking[1].link_secret) = 33
    /\ ~d_infos[1].ok
    /\ d_infos[2].ok
    /\ d_infos[2].tunnel_domain = "cable.auth.com"
\* C33: within one known-device connection attempt one client nonce is drawn,
\* once; the connection stage and the proximity-check stage are both given
\* that nonce, and the handshake stage is given the outputs of those two
\* stages of this attempt.
C33_OneNonce ==
    /\ k_pc \in {"idle", "spawned"} => k_nonces = <<>> /\ k_inputs = <<>>
    /\ k_pc \notin {"idle", "spawned"} =>
           /\ Len(k_nonces) = 1
           /\ Len(k_inputs) = Len(k_started)
           /\ \A i \in 1..Len(k_inputs) :
                  /\ k_inputs[i].stage = k_started[i]
                  /\ k_inputs[i].known_device = k_device
                  /\ i <= 2 => k_inputs[i].client_nonce = k_nonces[1]
           /\ Len(k_inputs) = 3 =>
                  /\ k_inputs[3].outputs = <<k_outputs[1], k_outputs[2]>>
                  /\ k_outputs[1].stage = "connection_stage"
                  /\ k_outputs[2].stage = "proximity_check_stage"
                  /\ k_outputs[1].client_nonce = k_nonces[1]
                  /\ k_outputs[2].client_nonce = k_nonces[1]

\* The handshake stage is awaited in an attempt whose nonce is sixteen 0xFF.
C33_Witness ==
    /\ k_pc = "handshake_stage"
    /\ k_nonces = <<[i \in 1..16 |-> 255]>>
    /\ Len(k_inputs) = 3
    /\ k_inputs[2].client_nonce = [i \in 1..16 |-> 255]
    /\ Len(k_inputs[3].outputs) = 2

\* C32: channel() returns Ok with the connection state at Connecting before
\* any stage has run.  The task then either fails in a stage, hands that
\* error to the UX sender, never starts the tunnel and never sets Terminated;
\* or it completes the handshake, runs the tunnel and sets Terminated only
\* after the tunnel connection has ended.
C32_ChannelTask ==
    /\ k_channel[1] # "Err"
    /\ k_pc # "idle" => k_channel = <<"Ok", "CableChannel">>
    /\ k_pc = "spawned" => k_state = "Connecting" /\ k_started = <<>>
    /\ k_result[1] = "Err" =>
           /\ k_tunnel = "not started"
           /\ k_state # "Terminated"
           /\ k_pc = "done" => k_reported = <<k_result>>
    /\ k_tunnel # "not started" =>
           /\ k_result = StageOk("handshake_stage")
           /\ Len(k_outcomes) = 3
           /\ \A i \in 1..3 : k_outcomes[i][1] = "Ok"
           /\ k_reported = <<>>
    /\ k_state = "Terminated" => k_tunnel = "ended"
    /\ (k_pc = "done" /\ k_result[1] = "Ok") =>
           k_state = "Terminated" /\ k_tunnel = "ended"

\* The proximity check timed out: the error was reported and the task ended
\* with the tunnel never started.
C32_Witness ==
    /\ k_pc = "done"
    /\ k_result = StageErr("Timeout")
    /\ Len(k_outcomes) = 2
    /\ k_reported = <<StageErr("Timeout")>>
    /\ k_tunnel = "not started"
----------------------------------------------------------------------------
(* The UX bus of a new channel.                                            *)

\* C35: a subscriber receives only updates emitted after it subscribed.  The
\* channel is created with no live subscriber and the publisher may emit at
\* once; what it emits before anyone has subscribed is kept nowhere, and an
\* update emitted before a subscriber subscribed is never delivered to it.
C35_OnlyLaterUpdates ==
    /\ (\A s \in Subscribers : b_sub[s].state = "none") =>
           /\ b_queue = <<>> /\ b_tail = 0
           /\ (b_open /\ b_emitted < MaxEvents) => ENABLED UxPublish
    /\ \A s \in Subscribers :
           /\ b_sub[s].last # 0 => b_sub[s].last > b_sub[s].since
           /\ b_handled[s].update.seq # 0 => b_handled[s].update.seq > b_sub[s].since
           /\ b_sub[s].state = "receiving" =>
                  \A k \in 1..Len(b_queue) :
                      b_tail - Len(b_queue) + k >= b_sub[s].next
                          => b_queue[k].seq > b_sub[s].since

\* Two updates were emitted before s1 subscribed, and a third while s2 was
\* already listening; s1 subscribed after all three and handled the fourth.
C35_Witness ==
    /\ b_sub["s2"].state = "receiving" /\ b_sub["s2"].since = 2
    /\ b_sub["s1"].state = "receiving" /\ b_sub["s1"].since = 3
    /\ Len(b_queue) = 2
    /\ b_handled["s1"].update.seq = 4
====
